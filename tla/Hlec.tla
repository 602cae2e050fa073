-------------------------------- MODULE Hlec --------------------------------
(***************************************************************************)
(* The event controller (hlec/hlec.cpp): a singly linked list of events,   *)
(* with first_event and last_event, in memory that malloc hands out and    *)
(* free takes back.  A cell keeps its contents when it is freed, and the   *)
(* code may write to it: the list is modelled by its pointers, not as a    *)
(* sequence.  Every operation has two overloads, by event id (which walks  *)
(* the list) and by context pointer (which does not).                      *)
(***************************************************************************)
EXTENDS Integers, FiniteSets, FiniteSetsExt

CONSTANTS
  Cells,    \* the addresses that malloc may return for an event
  Null,
  MaxIds    \* bound: events created

ASSUME HlecAssumption == Null \notin Cells /\ IsFiniteSet(Cells) /\ MaxIds \in Nat

VARIABLES
  mem,          \* per cell: ev_id, whether it has a callback, quiet, ev_next
  allocated,    \* the cells that are allocated
  first_event,
  last_event,
  last_id,
  events,       \* events[id]: the context of an event created and not removed
  result        \* of the last raise: "none", "failed" or "ran"

vars == <<mem, allocated, first_event, last_event, last_id, events, result>>

Ids == 0..(MaxIds - 1)

Fresh(id) == [ev_id |-> id, callback |-> FALSE, quiet |-> TRUE,
              ev_next |-> Null]

Init ==
  /\ mem = [c \in Cells |-> Fresh(-1)]
  /\ allocated   = {}
  /\ first_event = Null
  /\ last_event  = Null
  /\ last_id     = 0
  /\ events      = [id \in Ids |-> Null]
  /\ result      = "none"

-----------------------------------------------------------------------------
(* The walk along ev_next.                                                 *)

N == Cardinality(Cells)

\* The n-th cell of the list, from 0, or Null beyond its end.
Nth[n \in 0..N] ==
  IF n = 0 THEN first_event
  ELSE IF Nth[n - 1] = Null THEN Null ELSE mem[Nth[n - 1]].ev_next

\* The places of the list whose event has the id.
Places(id) == {n \in 0..N : Nth[n] # Null /\ mem[Nth[n]].ev_id = id}

get_event_for_id(id) ==
  IF Places(id) = {} THEN Null ELSE Nth[Min(Places(id))]

\* The head has no predecessor: its id is found at a later place, or not.
get_prev_event_for_id(id) ==
  LET later == Places(id) \ {0}
  IN  IF later = {} THEN Null ELSE Nth[Min(later) - 1]

-----------------------------------------------------------------------------
\* Mutant: ++last_id, and the event carries the next one's id.
LinkPreIncrement(c) ==
  /\ first_event' = IF first_event = Null THEN c ELSE first_event
  /\ mem' = IF first_event = Null
              THEN [mem EXCEPT ![c] = Fresh(last_id + 1)]
              ELSE [mem EXCEPT ![c] = Fresh(last_id + 1),
                               ![last_event].ev_next = c]
  /\ last_event' = c

\* alloc_event: the new cell is reset and linked behind last_event, which
\* may be a cell that was freed, or the new cell itself.
Link(c) ==
  /\ first_event' = IF first_event = Null THEN c ELSE first_event
  /\ mem' = IF first_event = Null
              THEN [mem EXCEPT ![c] = Fresh(last_id)]
              ELSE [mem EXCEPT ![c] = Fresh(last_id),
                               ![last_event].ev_next = c]
  /\ last_event' = c

\* A failed malloc changes nothing and is left out.
new_event ==
  /\ last_id < MaxIds
  /\ \E c \in Cells \ allocated :
       /\ Link(c)
       /\ allocated' = allocated \cup {c}
       /\ events' = [events EXCEPT ![last_id] = c]
  /\ last_id' = last_id + 1
  /\ result' = "none"

\* Mutant: the cell is freed and stays on the list.
FreeOnly(node, prev) == UNCHANGED <<first_event, mem>>

\* last_event is not touched.
Unlink(node, prev) ==
  IF prev = Null
    THEN /\ first_event' = mem[node].ev_next
         /\ mem' = [mem EXCEPT ![node].ev_next = Null]
    ELSE /\ mem' = [mem EXCEPT ![prev].ev_next = mem[node].ev_next,
                               ![node].ev_next = Null]
         /\ UNCHANGED first_event

\* Both overloads remove by id; an id that is not found is ignored.
remove_event(id) ==
  LET node == get_event_for_id(id)
  IN  /\ IF node = Null
           THEN UNCHANGED <<mem, allocated, first_event>>
           ELSE /\ Unlink(node, get_prev_event_for_id(id))
                /\ allocated' = allocated \ {node}
      /\ events' = [events EXCEPT ![id] = Null]
      /\ result' = "none"
      /\ UNCHANGED <<last_event, last_id>>

\* register_event_callback, set_event_quiet and unset_event_quiet: a store
\* to the event, if there is one.
Store(ev, field, value) ==
  /\ mem' = IF ev = Null THEN mem
            ELSE IF field = "quiet" THEN [mem EXCEPT ![ev].quiet = value]
            ELSE [mem EXCEPT ![ev].callback = value]
  /\ result' = "none"
  /\ UNCHANGED <<allocated, first_event, last_event, last_id, events>>

register_event_callback(ev) == Store(ev, "callback", TRUE)
set_event_quiet(ev)         == Store(ev, "quiet", TRUE)
unset_event_quiet(ev)       == Store(ev, "quiet", FALSE)

raise_event(ev) ==
  /\ result' = IF ev = Null \/ mem[ev].quiet \/ ~mem[ev].callback
                 THEN "failed" ELSE "ran"
  /\ UNCHANGED <<mem, allocated, first_event, last_event, last_id, events>>

\* A caller passes an id, of any event ever created, or the context of an
\* event it has not removed.
Named == {get_event_for_id(id) : id \in 0..(last_id - 1)}
           \cup ({events[id] : id \in Ids} \ {Null})

Next ==
  \/ new_event
  \/ \E id \in 0..(last_id - 1) : remove_event(id)
  \/ \E ev \in Named :
       \/ register_event_callback(ev)
       \/ set_event_quiet(ev)
       \/ unset_event_quiet(ev)
       \/ raise_event(ev)

Spec == Init /\ [][Next]_vars

-----------------------------------------------------------------------------
(* Properties                                                              *)

\* Every variable has its type; ids are those that new_event has given out.
TypeOK ==
  /\ mem \in [Cells -> [ev_id: Ids \cup {-1}, callback: BOOLEAN,
                        quiet: BOOLEAN, ev_next: Cells \cup {Null}]]
  /\ allocated \subseteq Cells
  /\ {first_event, last_event} \subseteq Cells \cup {Null}
  /\ last_id \in 0..MaxIds
  /\ events \in [Ids -> Cells \cup {Null}]
  /\ result \in {"none", "failed", "ran"}

\* Every walk ends and touches only allocated memory: the list from
\* first_event reaches a null pointer, and its cells are allocated, although
\* last_event may point to a freed cell and be written through.
WalkIsSafe ==
  /\ Nth[N] = Null
  /\ \A n \in 0..N : Nth[n] # Null => Nth[n] \in allocated

\* The walk finds the event that has the id, and no other.  So a removed
\* event is not found by its id again, whatever is created in the memory it
\* had: its callback cannot run.
FindsTheEvent ==
  \A id \in 0..(last_id - 1) :
    get_event_for_id(id) \in {Null, events[id]}

\* The list of events stays usable through any order of creating and removing
\* (hlec.cpp: alloc_event, remove_event, get_event_for_id).
EventsAreSound == WalkIsSafe /\ FindsTheEvent
=============================================================================
