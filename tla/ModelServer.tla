---------------------------- MODULE ModelServer ----------------------------
(***************************************************************************)
(* backends/llama_server.py: one call of LlamaServer, as the requests it   *)
(* is made of.  With raw_completion a call renders the prompt with one     *)
(* request and generates with a second; otherwise it is a single chat      *)
(* request.  Each request is sent again when the server answers 5xx.       *)
(***************************************************************************)
EXTENDS Naturals

CONSTANT Retries  \* server_error_retries

ASSUME RetriesAssumption == Retries \in Nat

VARIABLES
  raw,      \* raw_completion
  stage,    \* the endpoint of the request under way, "idle" between calls
  attempt,  \* how often this request has been sent again
  requests  \* the requests of this call so far

serverVars == <<raw, stage, attempt, requests>>

ServerInit ==
  /\ raw \in BOOLEAN
  /\ stage = "idle"
  /\ attempt = 0
  /\ requests = 0

StartCall ==
  /\ stage = "idle"
  /\ stage' = IF raw THEN "apply-template" ELSE "chat"
  /\ attempt' = 0
  /\ requests' = 1
  /\ UNCHANGED raw

(* Faulty: the attempt counter is not passed on. *)
ResendUncounted ==
  /\ stage # "idle"
  /\ attempt < Retries
  /\ requests' = IF requests <= 2 * (Retries + 1) THEN requests + 1 ELSE requests
  /\ UNCHANGED <<raw, stage, attempt>>

(* A 5xx, with retries left. *)
Resend ==
  /\ stage # "idle"
  /\ attempt < Retries
  /\ attempt' = attempt + 1
  /\ requests' = requests + 1
  /\ UNCHANGED <<raw, stage>>

(* The prompt has come back; the second request has its own retries.       *)
Rendered ==
  /\ stage = "apply-template"
  /\ stage' = "completion"
  /\ attempt' = 0
  /\ requests' = requests + 1
  /\ UNCHANGED raw

EndCall ==
  /\ stage' = "idle"
  /\ attempt' = 0
  /\ requests' = 0
  /\ UNCHANGED raw

(* A text that is not empty. *)
Replies == stage \in {"completion", "chat"} /\ EndCall

(* RuntimeError: a 4xx, a last 5xx, no connection, an empty content.       *)
Fails == stage # "idle" /\ EndCall

(* What is not turned into a RuntimeError: a read timeout, a body that is  *)
(* not JSON or lacks the expected field.                                   *)
Breaks == stage # "idle" /\ EndCall

ServerStep == Resend \/ Rendered

(* A call costs a bounded number of requests: each of its endpoints is     *)
(* asked at most once and Retries times again, so a server that keeps      *)
(* failing cannot hold a meeting up (server_error_retries).                *)
RequestsBounded == requests <= (IF raw THEN 2 ELSE 1) * (Retries + 1)

=============================================================================
