------------------------------ MODULE ErrGroup ------------------------------
(***************************************************************************)
(* A group of goroutines that work on parts of one task (co.Group): Go     *)
(* blocks at the limit, TryGo does not, Wait returns when all functions    *)
(* have returned, with the first error.  The functions run on goroutines   *)
(* of the stateless pool.                                                  *)
(***************************************************************************)
EXTENDS Integers, FiniteSets

CONSTANTS Functions, NoError, Limits   \* limits, -1 for none

VARIABLES
  limit,    \* capacity of sem, -1 for a nil sem
  sem,      \* tokens in sem
  wg,       \* the wait group
  function, \* what each function does
  groupErr, \* g.err: the function whose error was kept
  errs,     \* functions that returned an error, in order of return: the first
  canceled, \* the group's context is done
  waiting   \* Wait: no, waiting, or the error it returned

egVars == <<limit, sem, wg, function, groupErr, errs, canceled, waiting>>

Init ==
  /\ limit = -1 /\ sem = 0 /\ wg = 0
  /\ function = [f \in Functions |-> "new"]
  /\ groupErr = NoError /\ errs = NoError /\ canceled = FALSE
  /\ waiting = [at |-> "no", err |-> NoError]

Active == {f \in Functions : function[f] \notin {"new", "turned away", "gone"}}

(* SetLimit: not to be called while functions are active.                  *)
SetLimit(n) ==
  /\ Active = {} /\ waiting.at = "no"
  /\ limit' = n /\ sem' = 0
  /\ UNCHANGED <<wg, function, groupErr, errs, canceled, waiting>>

Free == limit = -1 \/ sem < limit
Token(d) == sem' = IF limit = -1 THEN sem ELSE sem + d

(* Go and TryGo take a token and count the function, then start it.        *)
GoUncounted(f) ==
  /\ waiting.at = "no" /\ function[f] = "new" /\ Free
  /\ Token(1) /\ wg' = wg
  /\ function' = [function EXCEPT ![f] = "uncounted"]
  /\ UNCHANGED <<limit, groupErr, errs, canceled, waiting>>

Go(f) ==
  /\ waiting.at = "no" /\ function[f] = "new" /\ Free
  /\ Token(1) /\ wg' = wg + 1
  /\ function' = [function EXCEPT ![f] = "started"]
  /\ UNCHANGED <<limit, groupErr, errs, canceled, waiting>>

TryGo(f) ==
  /\ waiting.at = "no" /\ function[f] = "new"
  /\ IF Free THEN /\ Token(1) /\ wg' = wg + 1
                  /\ function' = [function EXCEPT ![f] = "started"]
     ELSE function' = [function EXCEPT ![f] = "turned away"] /\ UNCHANGED <<sem, wg>>
  /\ UNCHANGED <<limit, groupErr, errs, canceled, waiting>>

(* A function returns; its error is kept if it is the first, ...           *)
Returns(f, err) ==
  /\ function[f] \in {"started", "uncounted"}
  /\ function' = [function EXCEPT ![f] = IF err THEN "failed" ELSE "returned"]
  /\ errs' = IF err /\ errs = NoError THEN f ELSE errs
  /\ UNCHANGED <<limit, sem, wg, groupErr, canceled, waiting>>

errOnce(f) ==
  /\ function[f] = "failed"
  /\ function' = [function EXCEPT ![f] = "returned"]
  /\ groupErr' = IF groupErr = NoError THEN f ELSE groupErr
  /\ canceled' = TRUE
  /\ UNCHANGED <<limit, sem, wg, errs, waiting>>

(* ... and done gives the token back before it counts the function off.    *)
done(f) ==
  \/ /\ function[f] = "returned"
     /\ function' = [function EXCEPT ![f] = "released"]
     /\ Token(-1)
     /\ UNCHANGED <<limit, wg, groupErr, errs, canceled, waiting>>
  \/ /\ function[f] = "released"
     /\ function' = [function EXCEPT ![f] = "gone"]
     /\ wg' = wg - 1
     /\ UNCHANGED <<limit, sem, groupErr, errs, canceled, waiting>>

Wait ==
  \/ /\ waiting.at = "no"
     /\ waiting' = [waiting EXCEPT !.at = "waiting"]
     /\ UNCHANGED <<limit, sem, wg, function, groupErr, errs, canceled>>
  \/ /\ waiting.at = "waiting" /\ wg = 0
     /\ waiting' = [at |-> "over", err |-> groupErr]
     /\ canceled' = TRUE
     /\ UNCHANGED <<limit, sem, wg, function, groupErr, errs>>

Next ==
  \/ \E n \in Limits : SetLimit(n)
  \/ \E f \in Functions :
       \/ Go(f) \/ TryGo(f) \/ errOnce(f) \/ done(f)
       \/ \E err \in BOOLEAN : Returns(f, err)
  \/ Wait

Spec == Init /\ [][Next]_egVars
-----------------------------------------------------------------------------
(* "Wait blocks until all function calls from the Go method have returned, *)
(* then returns the first non-nil error (if any) from them": when it has   *)
(* returned no function runs, and it has an error exactly if one did; and  *)
(* at no time do more functions run than the limit allows.                 *)
WaitExact ==
  /\ waiting.at = "over" =>
       Active = {} /\ (waiting.err = NoError <=> errs = NoError)
  /\ limit >= 0 =>
       Cardinality({f \in Active : function[f] # "released"}) <= limit
=============================================================================
