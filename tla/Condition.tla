------------------------------ MODULE Condition ------------------------------
(***************************************************************************)
(* condition.Cond around a step of a handler: Do, DoUntilTrue, Once and    *)
(* Track run the function f and write down on the object how it went.      *)
(*                                                                         *)
(* The handler is called for an object of its cache, which lags.  What f   *)
(* answers is the environment's; it changes a bounded number of times.     *)
(* Of a message it matters whether it holds the name of a temporary file:  *)
(* that of an error is <<"tmp", n>>, new with every call, and what is left *)
(* of it is <<"redacted">>.  The clock has the resolution of a second, so  *)
(* it may or may not move between two steps.                               *)
(***************************************************************************)
EXTENDS Naturals, Sequences

CONSTANTS
  Modes,      \* of "Do", "DoUntilTrue", "Once" and "Track" those in use
  MaxTurns,   \* bound: how often the answer of f changes
  MaxNewer,   \* bound: answers with an object newer than the handler's copy
  MaxTroubles \* bound: updates that fail and writes of others to the object

VARIABLES
  mode,     \* how the handler runs f
  answer,   \* what f answers at present
  stored,   \* the object in the cluster: its version and its condition
  cached,   \* the informer's copy
  queued,   \* the object is in the controller's queue
  run,      \* the call of the handler that is running
  now,      \* the clock
  left,     \* what the bounds leave: [turns, newer, troubles]
  saves,    \* updates since the answer last changed
  dropped   \* Track has dropped the error of its last update, f having succeeded

vars == <<mode, answer, stored, cached, queued, run, now, left, saves, dropped>>

Answers == {"ok", "error", "forget", "conflict"}
NoCond == [status |-> "", ts |-> 0, reason |-> "", message |-> <<>>]
Idle == [at |-> "idle"]

Message(a, n) == IF a = "error" THEN <<"tmp", n>> ELSE <<a>>
Redacted(msg) == IF Len(msg) = 2 THEN <<"redacted">> ELSE msg
-----------------------------------------------------------------------------
(* findOrCreateCond, setValue with touchTS.                                *)
Created(c) == IF c.status = "" THEN [c EXCEPT !.status = "Unknown"] ELSE c

SetValue(c, f, v) ==
  LET d == Created(c) IN IF d[f] = v THEN d ELSE [d EXCEPT ![f] = v, !.ts = now]

SetStatus(c, status) == SetValue(c, "status", status)
SetMessage(c, msg) == SetValue(c, "message", msg)
LastUpdated(c, ts) == [Created(c) EXCEPT !.ts = ts]
Reason(c, reason) == [Created(c) EXCEPT !.reason = reason]

(* A conflict leaves no message and no reason.                             *)
ReasonAndMessageFromError(c, a, msg) ==
  IF a = "conflict" THEN c ELSE SetValue(SetMessage(c, msg), "reason", "Error")

(* The first half of doInternal, before f.                                 *)
BeforeF(c) == IF c.status = "False" THEN c ELSE SetStatus(c, "Unknown")

(* The second half, on the object that carries the condition: the one f    *)
(* returned, if it did and setReturned is on, or else the one passed in.   *)
AfterF(c, a, msg) ==
  CASE a = "ok"     -> SetMessage(Reason(SetStatus(c, "True"), ""), <<>>)
    [] a = "forget" -> IF c.message = <<>> THEN ReasonAndMessageFromError(c, a, msg) ELSE c
    [] OTHER        -> ReasonAndMessageFromError(SetStatus(c, "False"), a, msg)

(* Mutant: the name of a temporary file is a change.                       *)
SteadyUnredacted(old, new) ==
  IF old.status = new.status /\ old.reason = new.reason /\ old.message = new.message
  THEN LastUpdated(new, old.ts) ELSE new

(* The rest of do2: "prevent non stop flapping of states and update".      *)
Steady(old, new) ==
  LET same == old.status = new.status /\ old.reason = new.reason
      kept == IF same /\ old.message # new.message THEN SetMessage(new, Redacted(new.message)) ELSE new
  IN  IF same /\ old.message = kept.message THEN LastUpdated(kept, old.ts) ELSE kept

(* What Track copies from its own copy to the object f returned.           *)
Copied(to, from) ==
  SetMessage(Reason(LastUpdated(SetStatus(to, from.status), from.ts), from.reason), from.message)
-----------------------------------------------------------------------------
Init ==
  /\ mode \in Modes /\ answer \in Answers
  /\ stored = [rv |-> 1, cond |-> NoCond] /\ cached = stored
  /\ queued = TRUE /\ run = Idle /\ now = 0
  /\ left = [turns |-> MaxTurns, newer |-> MaxNewer, troubles |-> MaxTroubles]
  /\ saves = 0 /\ dropped = FALSE

(* Once gives up on a condition that is False: the answer is a ForgetError *)
(* and the object is not tried again.                                      *)
GivesUp(c) == mode = "Once" /\ c.status = "False"

(* Mutant: DoUntilTrue does not look at the condition.                     *)
IsDoneNever(c) == FALSE

IsDone(c) == mode \in {"Once", "DoUntilTrue"} /\ c.status = "True"

Begin ==
  /\ queued /\ run = Idle
  /\ queued' = FALSE
  /\ run' = IF GivesUp(cached.cond) \/ IsDone(cached.cond) THEN Idle
            ELSE [at |-> "f", orig |-> cached, cond |-> BeforeF(cached.cond)]
  /\ UNCHANGED <<mode, answer, stored, cached, now, left, saves, dropped>>

(* f answers, with nothing, or with an object it has just read; the        *)
(* condition is set, and Track or the handler's caller has an object to    *)
(* save if the condition changed.                                          *)
Answer(n, fresh) ==
  LET msg    == Message(answer, n)
      onRet  == mode # "Track" /\ fresh
      cond   == Steady(run.orig.cond, AfterF(IF onRet THEN stored.cond ELSE run.cond, answer, msg))
      ret    == IF fresh THEN stored ELSE run.orig
      newer  == ret.rv # run.orig.rv
  IN  /\ run.at = "f"
      /\ newer => left.newer > 0
      /\ left' = IF newer THEN [left EXCEPT !.newer = @ - 1] ELSE left
      /\ run' = [at |-> "save", rv |-> ret.rv, newer |-> newer, changed |-> cond # run.orig.cond,
                 cond |-> IF mode = "Track" /\ fresh THEN Copied(stored.cond, cond) ELSE cond,
                 error |-> answer \notin {"ok", "forget"}]
      /\ UNCHANGED <<mode, answer, stored, cached, queued, now, saves, dropped>>

(* The update; one that meets a newer version fails.  An error of f, and   *)
(* without Track one of the update, brings the object back to the queue.   *)
Save ==
  LET conflict == run.rv # stored.rv IN
  /\ run.at = "save"
  /\ stored' = IF run.changed /\ ~conflict THEN [rv |-> stored.rv + 1, cond |-> run.cond] ELSE stored
  /\ queued' = (queued \/ run.error \/ (run.changed /\ conflict /\ mode # "Track"))
  /\ saves' = IF stored' = stored THEN saves ELSE saves + 1
  /\ run' = Idle /\ dropped' = FALSE
  /\ UNCHANGED <<mode, answer, cached, now, left>>

(* Mutant: Do drops the error of the update as Track does.                 *)
SaveFailsDropped ==
  /\ run.at = "save" /\ run.changed /\ left.troubles > 0
  /\ left' = [left EXCEPT !.troubles = @ - 1]
  /\ queued' = (queued \/ run.error)
  /\ dropped' = (mode = "Track" /\ ~run.error)
  /\ run' = Idle
  /\ UNCHANGED <<mode, answer, stored, cached, now, saves>>

SaveFails ==
  /\ run.at = "save" /\ run.changed /\ left.troubles > 0
  /\ left' = [left EXCEPT !.troubles = @ - 1]
  /\ queued' = (queued \/ run.error \/ mode # "Track")
  /\ dropped' = (mode = "Track" /\ ~run.error)
  /\ run' = Idle
  /\ UNCHANGED <<mode, answer, stored, cached, now, saves>>

(* Versions and the clock only matter up to equality: the clock goes round.*)
Tick == now' = 1 - now /\ UNCHANGED <<mode, answer, stored, cached, queued, run, left, saves, dropped>>

Sync ==
  /\ cached # stored
  /\ cached' = stored /\ queued' = TRUE
  /\ UNCHANGED <<mode, answer, stored, run, now, left, saves, dropped>>

(* What f looks at changes; the handler hears of it.                       *)
Turn ==
  /\ left.turns > 0 /\ left' = [left EXCEPT !.turns = @ - 1]
  /\ answer' \in Answers \ {answer} /\ queued' = TRUE /\ saves' = 0
  /\ UNCHANGED <<mode, stored, cached, run, now, dropped>>

OtherWrite ==
  /\ left.troubles > 0 /\ left' = [left EXCEPT !.troubles = @ - 1]
  /\ stored' = [stored EXCEPT !.rv = @ + 1]
  /\ UNCHANGED <<mode, answer, cached, queued, run, now, saves, dropped>>

Work == Begin \/ (\E n \in {0, 1}, fresh \in BOOLEAN : Answer(n, fresh)) \/ Save \/ SaveFails
Next == Work \/ Tick \/ Sync \/ Turn \/ OtherWrite

Spec == Init /\ [][Next]_vars /\ WF_vars(Work) /\ WF_vars(Sync)
-----------------------------------------------------------------------------
(* An answer of f that does not change costs few updates, however often    *)
(* the handler is called: do2 takes back the time it touched and the name  *)
(* of the temporary file ("This is to prevent non stop flapping of states  *)
(* and update").                                                           *)
NoFlapping == saves <= 4

(* What has been decided stays: under DoUntilTrue and Once a stored True   *)
(* is never taken back, and under Once neither is a False.  A handler that *)
(* is called with an older copy runs f again, and it is the version of the *)
(* copy that then stops the update; an f that returns a newer object than  *)
(* the handler was called with takes that protection away.                 *)
DecidedStays ==
  [][/\ \/ mode \in {"DoUntilTrue", "Once"} /\ stored.cond.status = "True"
        \/ mode = "Once" /\ stored.cond.status = "False"
     /\ run.at = "save" => ~run.newer
     => stored'.cond.status = stored.cond.status]_vars

(* The stored condition comes to tell how f is doing, through stale copies,*)
(* conflicts and failing updates: True if it succeeds, False if it fails.  *)
(* Track loses it when its update fails after an f that succeeded, until   *)
(* it is called again: it drops the error, and nobody tries again.         *)
(* Nothing is promised for a ForgetError: the Unknown is set on the object *)
(* passed in, and a True on the object f returns stays, with the error as  *)
(* message.                                                                *)
ComesTrue ==
  <>[](\/ mode \in {"DoUntilTrue", "Once"} \/ dropped \/ answer = "forget"
       \/ stored.cond.status = IF answer = "ok" THEN "True" ELSE "False")
=============================================================================
