------------------------------- MODULE Listeners -------------------------------
(***************************************************************************)
(* The handlers of one event: on, off and the dispatch of Isolate in       *)
(* src/src/js/bootstrap.js, and of NETWORK in bootstrap_worker.js, which   *)
(* is the same without destroy.  An array holds the handlers, and the      *)
(* dispatch iterates over that array itself, by index, while the handlers  *)
(* it calls add to it and remove from it.                                  *)
(***************************************************************************)
EXTENDS Integers, Sequences, FiniteSets, SequencesExt

CONSTANTS
  Handlers,         \* the functions given to on and off
  MaxRegistrations  \* bound on the calls of on

ASSUME ConstantsAssumption == MaxRegistrations \in Nat

VARIABLES
  array,      \* the handlers of the event, as registrations in order
  calls,      \* calls of on so far, which number the registrations
  destroyed,  \* the isolate is destroyed, and the array in no map any more
  index,      \* where the dispatch is in the array, or 0 outside a dispatch
  inHandler,  \* a handler the dispatch has called has yet to return
  (* since the beginning of the last dispatch *)
  atStart,    \* the registrations that were in the array
  called,     \* those whose handler was called, in that order
  removed     \* those that off has removed

dispatchVars == <<index, inHandler, atStart, called>>
vars == <<array, calls, destroyed, dispatchVars, removed>>

Registration == [n : 1 .. MaxRegistrations, handler : Handlers]

Init ==
  /\ array = <<>>
  /\ calls = 0
  /\ destroyed = FALSE
  /\ index = 0
  /\ inHandler = FALSE
  /\ atStart = {}
  /\ called = <<>>
  /\ removed = {}

-----------------------------------------------------------------------------
\* The user's code runs in a handler, or when nothing is being dispatched.
UserRuns == inHandler \/ index = 0

\* A variant with a bug: the newest handler comes first.
AddedFirst(r) == <<r>> \o array

Added(r) == Append(array, r)

\* on: the same function may be registered again.  It throws once the isolate is
\* destroyed.
On(h) ==
  /\ UserRuns
  /\ ~destroyed
  /\ calls < MaxRegistrations
  /\ calls' = calls + 1
  /\ array' = Added([n |-> calls + 1, handler |-> h])
  /\ UNCHANGED <<destroyed, dispatchVars, removed>>

\* indexOf: the first registration of the function, or 0.
FirstOf(h) == SelectInSeq(array, LAMBDA r : r.handler = h)

\* off: what comes after the one removed moves up.  A destroyed isolate's handlers
\* are found no more.
Off(h) ==
  LET k == IF destroyed THEN 0 ELSE FirstOf(h)
  IN  /\ UserRuns
      /\ k # 0
      /\ array' = RemoveAt(array, k)
      /\ removed' = removed \cup {array[k]}
      /\ UNCHANGED <<calls, destroyed, dispatchVars>>

\* A variant with a bug: the arrays are cleared and not the map.
EmptiedByDestroy == <<>>

ArrayAfterDestroy == array

\* destroy: the map is cleared, an iteration goes on.
Destroy ==
  /\ UserRuns
  /\ ~destroyed
  /\ destroyed' = TRUE
  /\ array' = ArrayAfterDestroy
  /\ UNCHANGED <<calls, dispatchVars, removed>>

\* An event for an isolate that is not destroyed.
StartDispatch ==
  /\ index = 0
  /\ ~destroyed
  /\ index' = 1
  /\ atStart' = ToSet(array)
  /\ called' = <<>>
  /\ removed' = {}
  /\ UNCHANGED <<array, calls, destroyed, inHandler>>

\* A variant with a bug: the handlers there were when the dispatch began.
LeftOfCopy == SelectSeq(SetToSortSeq(atStart, LAMBDA a, b : a.n < b.n),
                        LAMBDA r : \A k \in DOMAIN called : r.n > called[k].n)

\* What is left for the iterator.
Left == SubSeq(array, index, Len(array))

CallNext ==
  /\ index > 0
  /\ ~inHandler
  /\ Left # <<>>
  /\ inHandler' = TRUE
  /\ called' = Append(called, Head(Left))
  /\ index' = index + 1
  /\ UNCHANGED <<array, calls, destroyed, atStart, removed>>

\* A handler's exception is caught in the loop.
HandlerReturns ==
  /\ inHandler
  /\ inHandler' = FALSE
  /\ UNCHANGED <<array, calls, destroyed, index, atStart, called, removed>>

EndDispatch ==
  /\ index > 0
  /\ ~inHandler
  /\ Left = <<>>
  /\ index' = 0
  /\ UNCHANGED <<array, calls, destroyed, inHandler, atStart, called, removed>>

-----------------------------------------------------------------------------
Dispatch == StartDispatch \/ CallNext \/ HandlerReturns \/ EndDispatch

Next == \/ Dispatch
        \/ Destroy
        \/ \E h \in Handlers : On(h) \/ Off(h)

Spec == Init /\ [][Next]_vars

-----------------------------------------------------------------------------
(* Properties.                                                             *)

\* Every variable has its type, and registrations stay in order.
TypeOK ==
  /\ array \in Seq(Registration)
  /\ \A j, k \in DOMAIN array : j < k => array[j].n < array[k].n
  /\ calls \in 0 .. MaxRegistrations
  /\ destroyed \in BOOLEAN /\ inHandler \in BOOLEAN
  /\ index \in 0 .. MaxRegistrations + 1
  /\ inHandler => index > 1
  /\ atStart \subseteq Registration
  /\ called \in Seq(Registration)
  /\ removed \subseteq Registration

\* However the array is changed under it, one dispatch calls the handlers in the
\* order of their registration and none of them twice.
CalledInOrder == \A j, k \in DOMAIN called : j < k => called[j].n < called[k].n

\* off takes effect in the middle of a dispatch: a handler that was removed before
\* its turn is not called - unless its isolate is destroyed by then, and off finds
\* nothing to remove.
RemovedIsNotCalled ==
  [][\A r \in removed : r \in ToSet(called') => r \in ToSet(called)]_<<called, removed>>

\* off in a handler moves the array under the iterator, which then passes over a
\* handler.  At most one for each removal, and none if nothing is removed: a
\* dispatch that ends has called all others that were there when it began.
SkipsOnlyForRemovals ==
  index > 0 /\ ~inHandler /\ Left = <<>> =>
    Cardinality(atStart \ (ToSet(called) \cup removed))
      <= Cardinality(removed \cap ToSet(called))

-----------------------------------------------------------------------------
(* The inductive invariant.                                                *)

\* Registrations are numbered by the calls of on, no place in the array is ahead of
\* the number of what it holds, and what the dispatch began with has lower numbers
\* than what was added since.
NumberedByCalls ==
  /\ \A k \in DOMAIN array : k <= array[k].n /\ array[k].n <= calls
  /\ \A r \in atStart \cup removed \cup ToSet(called) : r.n <= calls
  /\ \A r \in atStart : \A k \in DOMAIN array : array[k] \in atStart \/ r.n < array[k].n

\* What is left for the iterator comes after all it has called.
CalledComeFirst ==
  index > 0 => \A j \in DOMAIN called : \A k \in DOMAIN array :
                 k >= index => called[j].n < array[k].n

\* A handler leaves the array only through off, and does not come back.
NothingGetsLost ==
  /\ removed \cap ToSet(array) = {}
  /\ index > 0 => atStart \subseteq ToSet(called) \cup removed \cup ToSet(array)

\* The handlers the iterator is past without having called them.
Skipped == {r \in atStart \ ToSet(called) : \E k \in DOMAIN array : k < index /\ array[k] = r}

\* Each of them is paid for by the removal of one that was called.
SkipsArePaidFor ==
  /\ IsFiniteSet(atStart) /\ IsFiniteSet(removed)
  /\ index > 0 => Cardinality(Skipped) <= Cardinality(removed \cap ToSet(called))

IInv == /\ TypeOK
        /\ NumberedByCalls
        /\ CalledInOrder
        /\ CalledComeFirst
        /\ NothingGetsLost
        /\ SkipsArePaidFor

=============================================================================
