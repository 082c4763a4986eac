----------------------------- MODULE Breakpoints -----------------------------
(***************************************************************************)
(* BreakpointManager (simulator/debug/breakpoint.py): the breakpoints by   *)
(* id, and an index that finds the breakpoint of an address.  The index    *)
(* holds one id per address, that of the breakpoint added last.            *)
(***************************************************************************)
EXTENDS Integers

CONSTANTS
  Addresses,      \* where a breakpoint may be set
  MaxBreakpoints  \* bound: how many a session sets

ASSUME BreakpointAssumption == Addresses \subseteq Nat /\ MaxBreakpoints \in Nat

VARIABLES
  breakpoints,  \* _breakpoints: id -> breakpoint
  nextId,       \* _next_id: ids are not used again
  index         \* _address_index: address -> id

bpVars == <<breakpoints, nextId, index>>

Breakpoint == [address : Addresses, enabled : BOOLEAN, hit_count : Nat]

Without(f, x) == [y \in DOMAIN f \ {x} |-> f[y]]

With(f, x, v) == [y \in DOMAIN f \cup {x} |-> IF y = x THEN v ELSE f[y]]

BpInit ==
  /\ breakpoints = [i \in {} |-> 0]
  /\ nextId = 1
  /\ index = [a \in {} |-> 0]

-----------------------------------------------------------------------------
(* Operations *)

add(a) ==
  /\ nextId <= MaxBreakpoints
  /\ breakpoints' =
       With(breakpoints, nextId, [address |-> a, enabled |-> TRUE, hit_count |-> 0])
  /\ nextId' = nextId + 1
  /\ index' = With(index, a, nextId)

\* del raises KeyError when the address has no entry in the index any more,
\* before the breakpoint is removed.
removeRaises(id) ==
  id \in DOMAIN breakpoints /\ breakpoints[id].address \notin DOMAIN index

\* A mistake: the entry of the index outlives the breakpoint.
removeListed(id) ==
  /\ id \in DOMAIN breakpoints
  /\ ~removeRaises(id)
  /\ breakpoints' = Without(breakpoints, id)
  /\ UNCHANGED <<nextId, index>>

remove(id) ==
  /\ id \in DOMAIN breakpoints
  /\ ~removeRaises(id)
  /\ index' = Without(index, breakpoints[id].address)
  /\ breakpoints' = Without(breakpoints, id)
  /\ UNCHANGED nextId

\* enable and disable.
switch(id, on) ==
  /\ id \in DOMAIN breakpoints
  /\ breakpoints' = [breakpoints EXCEPT ![id].enabled = on]
  /\ UNCHANGED <<nextId, index>>

clear_all ==
  /\ breakpoints' = [i \in {} |-> 0]
  /\ index' = [a \in {} |-> 0]
  /\ UNCHANGED nextId

\* A mistake: a disabled breakpoint stops the program too.
HitIgnoringDisabled(a) ==
  a \in DOMAIN index /\ index[a] \in DOMAIN breakpoints

\* Whether check(a) finds a breakpoint: index[a] then.
Hit(a) ==
  /\ a \in DOMAIN index
  /\ index[a] \in DOMAIN breakpoints
  /\ breakpoints[index[a]].enabled

HitCounted(a) ==
  IF Hit(a) THEN [breakpoints EXCEPT ![index[a]].hit_count = @ + 1] ELSE breakpoints

check(a) ==
  /\ breakpoints' = HitCounted(a)
  /\ UNCHANGED <<nextId, index>>

BpNext ==
  \/ \E a \in Addresses : add(a)
  \/ \E id \in DOMAIN breakpoints : remove(id)
  \/ \E id \in DOMAIN breakpoints, on \in BOOLEAN : switch(id, on)
  \/ clear_all
  \/ \E a \in Nat : check(a)

BpSpec == BpInit /\ [][BpNext]_bpVars

-----------------------------------------------------------------------------
(* Properties *)

BpTypeOK ==
  /\ nextId \in Nat \ {0}
  /\ DOMAIN breakpoints \subseteq 1..(nextId - 1)
  /\ breakpoints \in [DOMAIN breakpoints -> Breakpoint]
  /\ DOMAIN index \subseteq Addresses

\* The index never leads to a breakpoint that was deleted or that stands at
\* another address, whatever is added twice, deleted and cleared: the mark the
\* listings draw (debugger.py:1575) and the stop of check are of a breakpoint
\* the user sees in the list.  Of several at an address it is the newest
\* (breakpoint.py:68); the older ones are hidden by it.
IndexIsSound ==
  \A a \in DOMAIN index :
    /\ index[a] \in DOMAIN breakpoints
    /\ breakpoints[index[a]].address = a
    /\ \A id \in DOMAIN breakpoints : breakpoints[id].address = a => id <= index[a]

=============================================================================
