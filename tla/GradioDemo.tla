----------------------------- MODULE GradioDemo -----------------------------
(***************************************************************************)
(* The demo on a Gradio server: demo/space_gradio/app.py.  Every session   *)
(* has a page and a run log; the server takes one run at a time out of a   *)
(* queue (Gradio's default), and the generator of a run can be ended at    *)
(* each of its yields: by Stop, by the clock of a GPU call, by an error.   *)
(* A GPU run is done by a worker that @spaces.GPU forks: what reaches the  *)
(* server of it is what it yields, not what it does to its copy of the     *)
(* log.  A memory is known by how many edits it has taken; which of the    *)
(* edits of a reply the guards let through is open.                        *)
(***************************************************************************)
EXTENDS StepGrammar, FiniteSets

CONSTANTS
  Sessions,   \* the pages that are open
  Meetings,   \* how many chunks a transcript may have, 0 for none or a bad one
  Calls,      \* what the model may reply to a reading step
  MaxRuns,    \* how many runs are asked for
  MaxQueue,   \* the queue's max_size
  K           \* NOP_COLLAPSE_K

ASSUME GradioAssumption ==
  /\ MaxRuns \in Nat /\ MaxQueue \in Nat \ {0} /\ K \in Nat \ {0}
  /\ Meetings \subseteq Nat
  /\ \A reply \in Calls : IsReply(reply)

VARIABLES
  pages,     \* of each session: its buttons, and what it shows of which run
  logs,      \* log_state, in the server's process
  exports,   \* the log in the file the export button offers
  queue,     \* the runs that wait
  job,       \* the run at hand, with the log it writes and its last step
  model,     \* whether _model is there
  asked      \* runs asked for

gradioVars == <<pages, logs, exports, queue, job, model, asked>>

NoJob == [stage |-> "none"]
NoStep == [applied |-> {}]
Fresh == [steps |-> <<>>, synth |-> -1]

EmptyPage ==
  [buttons |-> "idle", shows |-> "none", gpu |-> FALSE, chunks |-> 0, step |-> 0, told |-> -1]

GradioInit ==
  /\ pages = [s \in Sessions |-> EmptyPage]
  /\ logs = [s \in Sessions |-> Fresh] /\ exports = logs
  /\ queue = <<>> /\ job = NoJob
  /\ model = FALSE
  /\ asked = 0

Pending(s) ==
  \/ job # NoJob /\ job.session = s
  \/ \E k \in DOMAIN queue : queue[k].session = s

Show(s, buttons, shows) ==
  pages' = [pages EXCEPT ![s].buttons = buttons, ![s].shows = shows]

(* What is written to the log of a run: the session's, or the worker's     *)
(* copy, which ends with the worker.                                       *)
Logged(run, log) ==
  logs' = IF run.gpu THEN logs ELSE [logs EXCEPT ![run.session] = log]

(* Run: a page's second click while its first is pending does nothing, and *)
(* a full queue refuses.                                                   *)
PressRunDemo(s, n, gpu) ==
  /\ pages[s].buttons = "idle" /\ ~Pending(s)
  /\ Len(queue) < MaxQueue /\ asked < MaxRuns
  /\ asked' = asked + 1
  /\ queue' = Append(queue, [session |-> s, chunks |-> n, gpu |-> gpu])
  /\ UNCHANGED <<pages, logs, exports, job, model>>

(* Up to the first yield: the log is emptied; without a transcript that    *)
(* can be read the run is over.                                            *)
StartRun ==
  /\ job = NoJob /\ queue # <<>>
  /\ LET call == Head(queue)
         s    == call.session
     IN  /\ Logged(call, Fresh)
         /\ IF call.chunks = 0
            THEN /\ pages' = [pages EXCEPT ![s] = EmptyPage]
                 /\ job' = NoJob
            ELSE /\ pages' = [pages EXCEPT ![s] =
                       [buttons |-> "busy", shows |-> "reading", gpu |-> call.gpu,
                        chunks |-> call.chunks, step |-> 0, told |-> -1]]
                 /\ job' = [stage |-> "load", session |-> s, chunks |-> call.chunks,
                            gpu |-> call.gpu, at |-> 0, mem |-> 0, nops |-> 0,
                            last |-> NoStep, log |-> Fresh]
  /\ queue' = Tail(queue)
  /\ UNCHANGED <<exports, model, asked>>

(* A GPU call that is refused, for want of quota: no worker, no yield, and *)
(* the page is left as it is.                                              *)
RunRefused ==
  /\ job = NoJob /\ queue # <<>> /\ Head(queue).gpu
  /\ queue' = Tail(queue)
  /\ UNCHANGED <<pages, logs, exports, job, model, asked>>

(* get_model: on the CPU the first one is kept. *)
GetModel ==
  /\ job.stage = "load"
  /\ job' = [job EXCEPT !.stage = "read"]
  /\ model' = (model \/ ~job.gpu)
  /\ UNCHANGED <<pages, logs, exports, queue, asked>>

(* The edits of a reply that can apply: no point has the id 0, nor an      *)
(* empty text.                                                             *)
Parsed == [reply \in Calls |-> ParseToolCalls(reply)]
Edits(reply) ==
  {k \in DOMAIN Parsed[reply] :
     LET o == Parsed[reply][k]
     IN  /\ o.op \notin {"nop", "malformed"}
         /\ o.op # "drop" \/ o.pid # 0 \/ o.prefix # NoText}

(* A reading step up to the yield that shows it done.  The demo's own      *)
(* counter grows only after a collapse.  A reply that cannot be parsed     *)
(* ends the run, as RunFails does.                                         *)
ReadChunk(reply, applied, rich) ==
  /\ job.stage = "read" /\ job.at < job.chunks /\ ~Raises(reply)
  /\ LET collapse == applied = {} /\ rich /\ job.nops + 1 >= K
         after    == job.mem + Cardinality(applied)
         log      == [job.log EXCEPT !.steps =
                        Append(@, [index |-> job.at, prompt |-> job.mem, after |-> after,
                                   collapse |-> collapse])]
     IN  /\ job' = [job EXCEPT !.at = @ + 1, !.mem = after,
                               !.nops = IF collapse THEN @ + 1 ELSE 0,
                               !.last = [raw |-> reply, applied |-> applied], !.log = log]
         /\ Logged(job, log)
  /\ pages' = [pages EXCEPT ![job.session].step = job.at + 1]
  /\ UNCHANGED <<exports, queue, model, asked>>

Synthesized ==
  /\ job.stage = "read" /\ job.at = job.chunks
  /\ Logged(job, [job.log EXCEPT !.synth = job.mem])
  /\ pages' = [pages EXCEPT ![job.session].buttons = "idle", ![job.session].shows = "prose",
                            ![job.session].told = job.mem]
  /\ job' = NoJob
  /\ UNCHANGED <<exports, queue, model, asked>>

(* The model cannot be had, a call or the parser raises, or a GPU call     *)
(* takes too long: the page shows an error and its buttons stay as they    *)
(* are.                                                                    *)
RunFails ==
  /\ \/ job.stage = "load" /\ (job.gpu \/ ~model)
     \/ job.stage = "read"
  /\ Show(job.session, "busy", "error")
  /\ job' = NoJob
  /\ UNCHANGED <<logs, exports, queue, model, asked>>

(* Stop ends the generator and nothing more. *)
PressStopDemo(s) ==
  /\ pages[s].buttons = "busy" /\ job # NoJob /\ job.session = s
  /\ Show(s, "busy", "stopped")
  /\ job' = NoJob
  /\ UNCHANGED <<logs, exports, queue, model, asked>>

(* Debug log: a log without a step is refused.  A GPU run writes none here, *)
(* so that what is offered after it is of an earlier run.                  *)
Export(s) ==
  /\ logs[s].steps # <<>>
  /\ exports' = [exports EXCEPT ![s] = logs[s]]
  /\ UNCHANGED <<pages, logs, queue, job, model, asked>>

ServerRun ==
  \/ StartRun \/ RunRefused \/ GetModel \/ Synthesized \/ RunFails
  \/ \E reply \in Calls, rich \in BOOLEAN :
       \E applied \in SUBSET Edits(reply) : ReadChunk(reply, applied, rich)

GradioNext ==
  \/ \E s \in Sessions, n \in Meetings, gpu \in BOOLEAN : PressRunDemo(s, n, gpu)
  \/ \E s \in Sessions : PressStopDemo(s) \/ Export(s)
  \/ ServerRun

-----------------------------------------------------------------------------

(* The runs of a session are those of a reader, one after the other, as    *)
(* what is yielded to its page tells of them; a run that waits in the      *)
(* queue has not begun, and one that was stopped or failed tells nothing.  *)
Session(s) ==
  CASE job # NoJob /\ job.session = s ->
         [phase |-> "reading", size |-> pages[s].chunks, read |-> pages[s].step,
          memory |-> job.mem]
    [] ~(job # NoJob /\ job.session = s) /\ pages[s].shows = "prose" ->
         [phase |-> "told", size |-> pages[s].chunks, read |-> pages[s].step,
          memory |-> pages[s].told]
    [] OTHER ->
         [phase |-> "idle", size |-> 0, read |-> 0, memory |-> 0]

SessionReader(s) ==
  INSTANCE Reader WITH
    Memories <- Nat, Empty <- 0,
    phase <- Session(s).phase, size <- Session(s).size, read <- Session(s).read,
    missed <- {}, memory <- Session(s).memory, notice <- FALSE

SessionReads(s) == SessionReader(s)!Spec

=============================================================================
