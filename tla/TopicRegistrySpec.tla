-------------------------- MODULE TopicRegistrySpec --------------------------
(***************************************************************************)
(* What the topic callback registry promises (spec.md, sections 3 and 4),  *)
(* with no arrays, no indices and no loops: the registry is a set of       *)
(* <<topic, callback>> pairs, and a dispatch is the set of callbacks that  *)
(* fired.                                                                  *)
(*                                                                         *)
(*  - register inserts, or on an existing (topic, uniqueId, componentId)   *)
(*    updates the subscriber (clientId) in place;                          *)
(*  - unregister(id) removes every registration of id on every topic;      *)
(*  - an event on a cleanup topic first removes the registrations whose    *)
(*    cleanup topic it is and whose cleanup predicate holds, then invokes  *)
(*    exactly the remaining registrations of the topic whose filter        *)
(*    matches.                                                             *)
(***************************************************************************)
EXTENDS FiniteSets

CONSTANTS
  Topics,            \* push topics
  CleanupTopics,     \* topics whose events run the cleanup pass
  Callbacks,         \* the callback records subscribers register
  Ids,               \* ids passed to unregister
  Props,             \* the property maps events carry
  Matches(_, _),     \* Matches(cb, props): cb's filter accepts props
  CleanupHolds(_, _) \* CleanupHolds(props, cb): cb's cleanup predicate holds

VARIABLES
  regs,      \* set of <<topic, callback>>
  invoked    \* set of callbacks invoked by the most recent event

vars == <<regs, invoked>>

Key(t, cb) == <<t, cb.uniqueId, cb.componentId>>

Init ==
  /\ regs = {}
  /\ invoked = {}

Register(t, cb) ==
  /\ IF \E e \in regs : Key(e[1], e[2]) = Key(t, cb)
       THEN regs' = { IF Key(e[1], e[2]) = Key(t, cb)
                        THEN <<e[1], [e[2] EXCEPT !.clientId = cb.clientId]>>
                        ELSE e : e \in regs }
       ELSE regs' = regs \cup {<<t, cb>>}
  /\ UNCHANGED invoked

Unregister(id) ==
  /\ regs' = { e \in regs : e[2].uniqueId # id }
  /\ UNCHANGED invoked

Event(t, props) ==
  LET kept == IF t \in CleanupTopics
                THEN { e \in regs : ~(e[2].cleanupTopic = t /\ CleanupHolds(props, e[2])) }
                ELSE regs
  IN /\ regs' = kept
     /\ invoked' = { e[2] : e \in { x \in kept : x[1] = t /\ Matches(x[2], props) } }

Next ==
  \/ \E t \in Topics, cb \in Callbacks : Register(t, cb)
  \/ \E id \in Ids : Unregister(id)
  \/ \E t \in Topics, props \in Props : Event(t, props)

Spec == Init /\ [][Next]_vars
=============================================================================
