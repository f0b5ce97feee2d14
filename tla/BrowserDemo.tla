----------------------------- MODULE BrowserDemo -----------------------------
(***************************************************************************)
(* The page of the browser demo: demo/space_wasm/app.js.  One thread, one  *)
(* run at a time; the user may press Stop whenever the run waits, which is *)
(* for the model to load and for a reply.                                  *)
(***************************************************************************)
EXTENDS Port

CONSTANTS
  Lengths,    \* how many chunks a transcript may have
  Replies,    \* what the model may reply to a reading step: edit lines
  MaxPresses  \* how often Run is pressed

ASSUME BrowserAssumption ==
  Lengths \subseteq Nat /\ \A lines \in Replies : IsList(lines)

VARIABLES
  wllama,     \* the model: null, loading, ready, or dead: a handle without a model
  running, cancelled,
  stage,      \* where the run waits: load, read, synth, or off
  chunks, ci, \* how many chunks there are, and how many were put into a prompt
  mem,
  status,     \* the last thing the status line says
  prose,      \* the summary in the panel: the memory it was asked of, or none
  presses

browserVars ==
  <<wllama, running, cancelled, stage, chunks, ci, mem, status, prose, presses>>

NoProse == [of |-> NewMemory, kind |-> "none"]

BrowserInit ==
  /\ wllama = "null"
  /\ running = FALSE /\ cancelled = FALSE /\ stage = "off"
  /\ chunks = 0 /\ ci = 0
  /\ mem = NewMemory
  /\ status = "pick" /\ prose = NoProse
  /\ presses = 0

(* Faulty: a stopped run goes on to the summary. *)
OnwardsAlways(read) ==
  LET over == cancelled \/ read = chunks
  IN  /\ ci' = IF over THEN read ELSE read + 1
      /\ stage' = IF over THEN "synth" ELSE "read"
      /\ status' = "working"
      /\ running' = TRUE

(* After the wait for the model, or for the reply to a reading step: the   *)
(* next chunk, the summary, or the end of a run that was stopped.          *)
Onwards(read) ==
  LET over == cancelled \/ read = chunks
  IN  /\ ci' = IF over THEN read ELSE read + 1
      /\ stage' = IF cancelled THEN "off" ELSE IF over THEN "synth" ELSE "read"
      /\ status' = IF cancelled THEN "stopped" ELSE "working"
      /\ running' = ~cancelled

(* Run, with no text: the panels stay as they are. *)
PressRunEmpty ==
  /\ ~running /\ presses < MaxPresses
  /\ cancelled' = FALSE
  /\ status' = "pick"
  /\ presses' = presses + 1
  /\ UNCHANGED <<wllama, running, stage, chunks, ci, mem, prose>>

PressRun(n) ==
  /\ ~running /\ presses < MaxPresses
  /\ running' = TRUE /\ cancelled' = FALSE
  /\ chunks' = n /\ ci' = 0
  /\ mem' = NewMemory
  /\ prose' = NoProse
  /\ wllama' = IF wllama = "null" THEN "loading" ELSE wllama
  /\ stage' = "load" /\ status' = "working"
  /\ presses' = presses + 1

PressStop ==
  /\ running
  /\ cancelled' = TRUE
  /\ UNCHANGED <<wllama, running, stage, chunks, ci, mem, status, prose, presses>>

(* ensureModel returns: the handle, once there is one, is never loaded     *)
(* again.                                                                  *)
Loaded ==
  /\ stage = "load"
  /\ wllama' = IF wllama = "loading" THEN "ready" ELSE wllama
  /\ Onwards(0)
  /\ UNCHANGED <<cancelled, chunks, mem, prose, presses>>

(* Faulty: the buttons are not given back. *)
FailsBusy ==
  /\ stage' = "off" /\ status' = "error"
  /\ UNCHANGED <<running, cancelled, chunks, ci, mem, prose, presses>>

(* An exception: its message, and the buttons are given back. *)
Fails ==
  /\ stage' = "off" /\ status' = "error"
  /\ running' = FALSE
  /\ UNCHANGED <<cancelled, chunks, ci, mem, prose, presses>>

LoadFails ==
  /\ stage = "load" /\ wllama = "loading"
  /\ wllama' = "dead"
  /\ Fails

(* A stopped reply is applied as far as it came. *)
StepReplies(lines) ==
  /\ stage = "read" /\ wllama = "ready"
  /\ mem' = ApplyOps(mem, ParseOps(lines), ci - 1)
  /\ Onwards(ci)
  /\ UNCHANGED <<wllama, cancelled, chunks, prose, presses>>

(* A summary that Stop cuts short is shown as done as far as it came.      *)
SynthReplies ==
  /\ stage = "synth" /\ wllama = "ready"
  /\ \E kind \in {"whole", "cut"} :
       /\ kind = "cut" => cancelled
       /\ prose' = [of |-> mem, kind |-> kind]
  /\ status' = "done"
  /\ stage' = "off" /\ running' = FALSE
  /\ UNCHANGED <<wllama, cancelled, chunks, ci, mem, presses>>

(* No call of a handle without a model succeeds, and any may fail. *)
CallFails ==
  /\ stage \in {"read", "synth"}
  /\ UNCHANGED wllama
  /\ Fails

BrowserRun ==
  \/ Loaded \/ LoadFails
  \/ \E lines \in Replies : StepReplies(lines)
  \/ SynthReplies \/ CallFails

BrowserNext ==
  \/ PressRunEmpty
  \/ \E n \in Lengths : PressRun(n)
  \/ PressStop
  \/ BrowserRun

-----------------------------------------------------------------------------

(* The run of the page is a reader (module Reader) that never misses a     *)
(* chunk, because a call that fails ends it.  A summary, whole or cut,     *)
(* stays in the panel until the next run.                                  *)
Page ==
  CASE stage # "off" ->
         [phase |-> "reading", size |-> chunks,
          read |-> IF stage = "read" THEN ci - 1 ELSE ci, memory |-> mem]
    [] stage = "off" /\ prose.kind # "none" ->
         [phase |-> "told", size |-> chunks, read |-> ci, memory |-> prose.of]
    [] OTHER ->
         [phase |-> "idle", size |-> 0, read |-> 0, memory |-> NewMemory]

PageReader ==
  INSTANCE Reader WITH
    Memories <- [arc : Text \cup {NoText}, points : Seq([text : Text, chunk : Int])],
    Empty <- NewMemory,
    phase <- Page.phase, size <- Page.size, read <- Page.read,
    missed <- {}, memory <- Page.memory, notice <- FALSE

PageReads == PageReader!Spec

=============================================================================
