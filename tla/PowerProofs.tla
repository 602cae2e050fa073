----------------------------- MODULE PowerProofs -----------------------------
(***************************************************************************)
(* Proofs about the events of uACPI and about sleeping: UacpiGpe,          *)
(* UacpiFixedEvents and UacpiSleep.                                        *)
(***************************************************************************)
EXTENDS UacpiSleep, SequenceTheorems, TLAPS

(***************************************************************************)
(* What an operation on a GPE register may do.  Most operations are calm:  *)
(* they leave the masks and the users alone and enable at most an event    *)
(* that is current and not masked.  The rest keep the masks consistent.    *)
(***************************************************************************)
GpeRegister ==
    [ev : [Gpe -> GpEvent], runtime : SUBSET Gpe, wakes : SUBSET Gpe,
     masked : SUBSET Gpe, current : SUBSET Gpe, enable : SUBSET Gpe,
     status : SUBSET Gpe, finalized : BOOLEAN]

Counted(s) == s.runtime = {g \in Gpe : s.ev[g].users > 0}

SameMasks(s, r) == r.runtime = s.runtime /\ r.current = s.current /\ r.masked = s.masked

SameUsers(s, r) == \A h \in Gpe : r.ev[h].users = s.ev[h].users

Calm(s, r) ==
    /\ r \in GpeRegister /\ SameMasks(s, r) /\ SameUsers(s, r)
    /\ r.enable \subseteq s.enable \cup (s.current \ s.masked)

\* Nothing masked is enabled anew, and the masks that contain one another still do.
Keeps(s, r) ==
    /\ r \in GpeRegister /\ Counted(r)
    /\ r.masked \subseteq s.masked
    /\ r.masked \cap r.enable \subseteq s.masked \cap s.enable
    /\ s.current \subseteq s.runtime =>
         /\ r.current \subseteq r.runtime
         /\ s.enable \subseteq s.current => r.enable \subseteq r.current

LEMMA CalmReflexive == ASSUME NEW s \in GpeRegister PROVE Calm(s, s)
  BY DEF Calm, SameMasks, SameUsers

LEMMA CalmTransitive ==
    ASSUME NEW s, NEW t, NEW r, Calm(s, t), Calm(t, r)
    PROVE  Calm(s, r)
  BY DEF Calm, SameMasks, SameUsers

LEMMA CalmKeeps ==
    ASSUME NEW s \in GpeRegister, NEW r, Counted(s), Calm(s, r)
    PROVE  Keeps(s, r)
<1>1. Counted(r)
  BY DEF Calm, SameMasks, SameUsers, Counted
<1> QED
  BY <1>1 DEF Calm, SameMasks, Keeps

LEMMA KeepsReflexive == ASSUME NEW s \in GpeRegister, Counted(s) PROVE Keeps(s, s)
  BY DEF Keeps

LEMMA KeepsTransitive ==
    ASSUME NEW s, NEW t, NEW r, Keeps(s, t), Keeps(t, r)
    PROVE  Keeps(s, r)
  BY DEF Keeps

\* The enable bit is the only thing set_gpe_state touches.
LEMMA SetState ==
    ASSUME NEW s \in GpeRegister, NEW g \in Gpe, NEW state
    PROVE  LET r == set_gpe_state(s, g, state)
           IN  /\ r \in GpeRegister /\ SameMasks(s, r) /\ r.ev = s.ev
               /\ state = "DISABLED" => r.enable = s.enable \ {g}
               /\ state # "DISABLED" => r.enable \subseteq s.enable \cup ({g} \ s.masked)
               /\ state = "ENABLED_CONDITIONALLY" =>
                    r.enable \subseteq s.enable \cup ({g} \cap (s.current \ s.masked))
<1> DEFINE r == set_gpe_state(s, g, state)
           E == IF state = "DISABLED" THEN s.enable \ {g} ELSE s.enable \cup {g}
           stays == \/ state # "DISABLED" /\ g \in s.masked
                    \/ state = "ENABLED_CONDITIONALLY" /\ g \notin s.current
<1>1. CASE stays
  <2>1. r = s
    BY <1>1 DEF set_gpe_state
  <2>2. state # "DISABLED"
    BY <1>1
  <2> QED
    BY <2>1, <2>2 DEF SameMasks
<1>2. CASE ~stays
  <2>1. r = [s EXCEPT !.enable = E]
    BY <1>2 DEF set_gpe_state, GpeRegister
  <2>2. E \in SUBSET Gpe
    BY DEF GpeRegister
  <2> HIDE DEF E
  <2>3. r \in GpeRegister /\ SameMasks(s, r) /\ r.ev = s.ev /\ r.enable = E
    BY <2>1, <2>2 DEF GpeRegister, SameMasks
  <2>4. state # "DISABLED" => g \notin s.masked
    BY <1>2
  <2>5. state = "ENABLED_CONDITIONALLY" => g \in s.current
    BY <1>2
  <2> HIDE DEF r
  <2>6. state = "ENABLED_CONDITIONALLY" => state # "DISABLED"
    OBVIOUS
  <2> QED
    BY <2>3, <2>4, <2>5, <2>6 DEF E, r
<1> QED
  BY <1>1, <1>2

LEMMA DisableIsCalm ==
    ASSUME NEW s \in GpeRegister, NEW g \in Gpe
    PROVE  Calm(s, set_gpe_state(s, g, "DISABLED"))
  BY SetState DEF Calm, SameUsers

LEMMA ConditionalIsCalm ==
    ASSUME NEW s \in GpeRegister, NEW g \in Gpe
    PROVE  Calm(s, set_gpe_state(s, g, "ENABLED_CONDITIONALLY"))
  BY SetState DEF Calm, SameUsers

LEMMA ClearIsCalm ==
    ASSUME NEW s \in GpeRegister, NEW g \in Gpe
    PROVE  Calm(s, clear_gpe(s, g))
  BY DEF Calm, SameMasks, SameUsers, clear_gpe, GpeRegister

\* The record of an event changes, its users do not.
ChangeEvent(s, g, e) == [s EXCEPT !.ev = [s.ev EXCEPT ![g] = e]]

LEMMA ChangeIsCalm ==
    ASSUME NEW s \in GpeRegister, NEW g \in Gpe, NEW e \in GpEvent,
           e.users = s.ev[g].users
    PROVE  /\ Calm(s, ChangeEvent(s, g, e)) /\ ChangeEvent(s, g, e).ev[g] = e
           /\ ChangeEvent(s, g, e).enable = s.enable
<1> DEFINE r == ChangeEvent(s, g, e)
           ev == [s.ev EXCEPT ![g] = e]
<1>1. ev \in [Gpe -> GpEvent] /\ ev[g] = e /\ \A h \in Gpe : h # g => ev[h] = s.ev[h]
  BY DEF GpeRegister
<1> HIDE DEF ev
<1>2. r = [s EXCEPT !.ev = ev]
  BY DEF ChangeEvent, ev
<1>3. r \in GpeRegister /\ SameMasks(s, r) /\ r.ev = ev /\ r.enable = s.enable
  BY <1>1, <1>2 DEF GpeRegister, SameMasks
<1> QED
  BY <1>1, <1>3 DEF Calm, SameUsers

LEMMA BlockIsCalm ==
    ASSUME NEW s \in GpeRegister, NEW g \in Gpe, NEW b \in BOOLEAN
    PROVE  Calm(s, [s EXCEPT !.ev[g].block = b])
<1> DEFINE e == [s.ev[g] EXCEPT !.block = b]
<1>1. s.ev[g] \in GpEvent
  BY DEF GpeRegister
<1>2. e \in GpEvent /\ e.users = s.ev[g].users
  BY <1>1 DEF GpEvent
<1>3. [s EXCEPT !.ev[g].block = b] = ChangeEvent(s, g, e)
  BY DEF ChangeEvent, GpeRegister
<1> HIDE DEF e
<1>4. Calm(s, ChangeEvent(s, g, e))
  BY <1>2, ChangeIsCalm
<1> QED
  BY <1>3, <1>4

LEMMA RestoreIsCalm ==
    ASSUME NEW s \in GpeRegister, NEW g \in Gpe
    PROVE  Calm(s, restore_begin(s, g)) /\ Calm(s, restore_gpe(s, g))
<1> DEFINE t == restore_begin(s, g)
           u == set_gpe_state(t, g, "ENABLED_CONDITIONALLY")
           v == [u EXCEPT !.ev[g].block = FALSE]
<1>1. Calm(s, t)
  BY ClearIsCalm, CalmReflexive DEF restore_begin
<1>2. t \in GpeRegister
  BY <1>1 DEF Calm
<1>3. Calm(t, u)
  BY <1>2, ConditionalIsCalm
<1>4. u \in GpeRegister
  BY <1>3 DEF Calm
<1>5. Calm(u, v)
  BY <1>4, BlockIsCalm
<1>6. restore_gpe(s, g) = v
  BY DEF restore_gpe
<1> HIDE DEF t, u, v
<1> QED
  BY <1>1, <1>3, <1>5, <1>6, CalmTransitive DEF t

LEMMA Toggle ==
    ASSUME NEW s \in GpeRegister, NEW g \in Gpe, NEW on \in BOOLEAN
    PROVE  LET u == gp_event_toggle_masks(s, g, on)
           IN  /\ u \in GpeRegister /\ u.ev = s.ev /\ u.masked = s.masked /\ u.enable = s.enable
               /\ on => u.runtime = s.runtime \cup {g}
               /\ ~on => u.runtime = s.runtime \ {g}
               /\ u.current = u.runtime
<1> DEFINE R == IF on THEN s.runtime \cup {g} ELSE s.runtime \ {g}
           u == gp_event_toggle_masks(s, g, on)
<1>1. R \in SUBSET Gpe
  BY DEF GpeRegister
<1>2. u = [s EXCEPT !.runtime = R, !.current = R]
  BY DEF gp_event_toggle_masks
<1>3. (on => R = s.runtime \cup {g}) /\ (~on => R = s.runtime \ {g})
  OBVIOUS
<1> HIDE DEF R, u
<1>4. u \in GpeRegister
  BY <1>1, <1>2 DEF GpeRegister
<1>5. /\ u.ev = s.ev /\ u.masked = s.masked /\ u.enable = s.enable
      /\ u.runtime = R /\ u.current = R
  BY <1>2 DEF GpeRegister
<1> QED
  BY <1>3, <1>4, <1>5 DEF u

\* runtime_mask as it has to be when g has n users.
LEMMA SetUsers ==
    ASSUME NEW s \in GpeRegister, Counted(s), NEW g \in Gpe, NEW n \in 0 .. MaxUsers
    PROVE  LET t == [s EXCEPT !.ev[g].users = n]
           IN  /\ t \in GpeRegister /\ SameMasks(s, t) /\ t.enable = s.enable
               /\ t.ev[g].users = n
               /\ n > 0 => {h \in Gpe : t.ev[h].users > 0} = s.runtime \cup {g}
               /\ n = 0 => {h \in Gpe : t.ev[h].users > 0} = s.runtime \ {g}
               /\ s.ev[g].users > 0 => g \in s.runtime
<1> DEFINE e == [s.ev[g] EXCEPT !.users = n]
           ev == [s.ev EXCEPT ![g] = e]
           t == [s EXCEPT !.ev[g].users = n]
<1>1. s.ev[g] \in GpEvent /\ s.ev \in [Gpe -> GpEvent]
  BY DEF GpeRegister
<1>2. e \in GpEvent /\ e.users = n
  BY <1>1 DEF GpEvent
<1>3. t = [s EXCEPT !.ev = ev]
  BY DEF GpeRegister
<1>4. ev \in [Gpe -> GpEvent] /\ ev[g].users = n
      /\ \A h \in Gpe : h # g => ev[h] = s.ev[h]
  BY <1>1, <1>2
<1> HIDE DEF e, ev
<1>5. t \in GpeRegister /\ SameMasks(s, t) /\ t.enable = s.enable /\ t.ev = ev
  BY <1>3, <1>4 DEF GpeRegister, SameMasks
<1> HIDE DEF t
<1>6. s.ev[g].users > 0 => g \in s.runtime
  BY DEF Counted
<1>7. n > 0 => {h \in Gpe : ev[h].users > 0} = s.runtime \cup {g}
  BY <1>4 DEF Counted
<1>8. n = 0 => {h \in Gpe : ev[h].users > 0} = s.runtime \ {g}
  BY <1>4 DEF Counted
<1> QED
  BY <1>4, <1>5, <1>6, <1>7, <1>8 DEF t

LEMMA RemoveUserKeeps ==
    ASSUME NEW s \in GpeRegister, Counted(s), NEW g \in Gpe
    PROVE  Keeps(s, gpe_remove_user(s, g))
<1> DEFINE n == s.ev[g].users - 1
           t == [s EXCEPT !.ev[g].users = n]
           u == gp_event_toggle_masks(t, g, FALSE)
           v == set_gpe_state(u, g, "DISABLED")
<1>1. s.ev[g].users \in 0 .. MaxUsers /\ MaxUsers \in Nat
  BY GpeAssumption DEF GpeRegister, GpEvent
<1>2. CASE s.ev[g].users = 0
  BY <1>2, KeepsReflexive DEF gpe_remove_user
<1>3. CASE s.ev[g].users # 0
  <2>1. n \in 0 .. MaxUsers /\ s.ev[g].users > 0
    BY <1>1, <1>3
  <2>2. /\ t \in GpeRegister /\ SameMasks(s, t) /\ t.enable = s.enable
        /\ t.ev[g].users = n /\ g \in s.runtime
        /\ n > 0 => {h \in Gpe : t.ev[h].users > 0} = s.runtime \cup {g}
        /\ n = 0 => {h \in Gpe : t.ev[h].users > 0} = s.runtime \ {g}
    BY <2>1, SetUsers
  <2>3. gpe_remove_user(s, g) = IF n # 0 THEN t ELSE v
    BY <1>3, <2>2 DEF gpe_remove_user
  <2>4. n # 0 => n > 0
    BY <1>1, <2>1
  <2> HIDE DEF n, t
  <2>5. CASE n # 0
    <3>1. Counted(t)
      BY <2>2, <2>4, <2>5 DEF Counted, SameMasks
    <3>2. Keeps(s, t)
      BY <2>2, <3>1 DEF Keeps, SameMasks
    <3> QED
      BY <2>3, <2>5, <3>2
  <2>6. CASE n = 0
    <3>1. /\ u \in GpeRegister /\ u.ev = t.ev /\ u.masked = t.masked /\ u.enable = t.enable
          /\ u.runtime = t.runtime \ {g} /\ u.current = u.runtime
      BY <2>2, Toggle
    <3> HIDE DEF u
    <3>2. v \in GpeRegister /\ SameMasks(u, v) /\ v.ev = u.ev /\ v.enable = u.enable \ {g}
      BY <3>1, SetState
    <3> HIDE DEF v
    <3>3. Counted(v)
      BY <2>2, <2>6, <3>1, <3>2 DEF Counted, SameMasks
    <3>4. Keeps(s, v)
      BY <2>2, <3>1, <3>2, <3>3 DEF Keeps, SameMasks
    <3> QED
      BY <2>3, <2>6, <3>4
  <2> QED
    BY <2>5, <2>6
<1> QED
  BY <1>2, <1>3

LEMMA AddUserKeeps ==
    ASSUME NEW s \in GpeRegister, Counted(s), NEW g \in Gpe, NEW clear \in BOOLEAN
    PROVE  Keeps(s, gpe_add_user(s, g, clear))
<1> DEFINE n == s.ev[g].users + 1
           t == [s EXCEPT !.ev[g].users = n]
           c == IF clear THEN clear_gpe(t, g) ELSE t
           u == gp_event_toggle_masks(c, g, TRUE)
           v == set_gpe_state(u, g, "ENABLED")
<1>1. s.ev[g].users \in 0 .. MaxUsers /\ MaxUsers \in Nat
  BY GpeAssumption DEF GpeRegister, GpEvent
<1>2. CASE s.ev[g].users = MaxUsers
  BY <1>2, KeepsReflexive DEF gpe_add_user
<1>3. CASE s.ev[g].users # MaxUsers
  <2>1. n \in 0 .. MaxUsers /\ n > 0
    BY <1>1, <1>3
  <2>2. /\ t \in GpeRegister /\ SameMasks(s, t) /\ t.enable = s.enable
        /\ t.ev[g].users = n /\ (s.ev[g].users > 0 => g \in s.runtime)
        /\ {h \in Gpe : t.ev[h].users > 0} = s.runtime \cup {g}
    BY <2>1, SetUsers
  <2>3. gpe_add_user(s, g, clear) = IF n # 1 THEN t ELSE v
    BY <1>3, <2>2 DEF gpe_add_user
  <2>4. n # 1 => s.ev[g].users > 0
    BY <1>1
  <2> HIDE DEF n, t
  <2>5. CASE n # 1
    <3>1. Counted(t)
      BY <2>2, <2>4, <2>5 DEF Counted, SameMasks
    <3>2. Keeps(s, t)
      BY <2>2, <3>1 DEF Keeps, SameMasks
    <3> QED
      BY <2>3, <2>5, <3>2
  <2>6. CASE n = 1
    <3>1. /\ c \in GpeRegister /\ SameMasks(t, c) /\ c.ev = t.ev /\ c.enable = t.enable
      BY <2>2 DEF clear_gpe, GpeRegister, SameMasks
    <3> HIDE DEF c
    <3>2. /\ u \in GpeRegister /\ u.ev = c.ev /\ u.masked = c.masked /\ u.enable = c.enable
          /\ u.runtime = c.runtime \cup {g} /\ u.current = u.runtime
      BY <3>1, Toggle
    <3> HIDE DEF u
    <3>3. /\ v \in GpeRegister /\ SameMasks(u, v) /\ v.ev = u.ev
          /\ v.enable \subseteq u.enable \cup ({g} \ u.masked)
      BY <3>2, SetState
    <3> HIDE DEF v
    <3>4. Counted(v)
      BY <2>2, <3>1, <3>2, <3>3 DEF Counted, SameMasks
    <3>5. Keeps(s, v)
      BY <2>2, <3>1, <3>2, <3>3, <3>4 DEF Keeps, SameMasks
    <3> QED
      BY <2>3, <2>6, <3>5
  <2> QED
    BY <2>5, <2>6
<1> QED
  BY <1>2, <1>3

LEMMA UnmaskKeeps ==
    ASSUME NEW s \in GpeRegister, Counted(s), NEW g \in Gpe
    PROVE  Keeps(s, gpe_unmask(s, g))
<1> DEFINE t == [s EXCEPT !.masked = @ \ {g}]
           u == set_gpe_state(t, g, "ENABLED_CONDITIONALLY")
<1>1. /\ t \in GpeRegister /\ t.ev = s.ev /\ t.runtime = s.runtime /\ t.current = s.current
      /\ t.enable = s.enable /\ t.masked = s.masked \ {g}
  BY DEF GpeRegister
<1>2. gpe_unmask(s, g) \in {s, t, u}
  BY DEF gpe_unmask
<1> HIDE DEF t
<1>3. Counted(t)
  BY <1>1 DEF Counted
<1>4. Keeps(s, t)
  BY <1>1, <1>3 DEF Keeps
<1>5. Keeps(t, u)
  BY <1>1, <1>3, ConditionalIsCalm, CalmKeeps
<1> HIDE DEF u
<1> QED
  BY <1>2, <1>4, <1>5, KeepsReflexive, KeepsTransitive

\* Events as the calls that replace handlers change them.
NewHandler(e, p, type, triggering) ==
    [e EXCEPT !.previous = p, !.type = type, !.triggering = triggering]

LEMMA InstalledKeeps ==
    ASSUME NEW s \in GpeRegister, Counted(s), NEW a, a.g \in Gpe, a.type \in HandlerType,
           a.triggering \in Triggering
    PROVE  Keeps(s, Installed(s, a))
<1> DEFINE g == a.g
           e == s.ev[g]
           enabled == IsDeferred(e) /\ e.users # 0
           t == IF enabled THEN gpe_remove_user(s, g) ELSE s
           p == [type |-> e.type, enabled |-> enabled, triggering |-> e.triggering]
           f == NewHandler(t.ev[g], p, a.type, a.triggering)
<1>1. Keeps(s, t)
  BY RemoveUserKeeps, KeepsReflexive
<1>2. t \in GpeRegister /\ Counted(t)
  BY <1>1 DEF Keeps
<1>3. e \in GpEvent
  BY DEF GpeRegister
<1>4. p \in [type : HandlerType, triggering : Triggering, enabled : BOOLEAN]
  BY <1>3 DEF GpEvent
<1>5. Installed(s, a) = [t EXCEPT !.ev[g].previous = p, !.ev[g].type = a.type,
                                  !.ev[g].triggering = a.triggering]
  BY DEF Installed
<1> HIDE DEF t, p
<1>6. t.ev[g] \in GpEvent
  BY <1>2 DEF GpeRegister
<1>7. f \in GpEvent /\ f.users = t.ev[g].users
  BY <1>4, <1>6 DEF NewHandler, GpEvent
<1>8. Installed(s, a) = ChangeEvent(t, g, f)
  BY <1>2, <1>5, <1>6, ZenonT(60) DEF ChangeEvent, NewHandler, GpeRegister, GpEvent
<1> HIDE DEF f, g
<1>9. a.g = g /\ g \in Gpe
  BY DEF g
<1>10. Calm(t, ChangeEvent(t, g, f))
  BY <1>2, <1>7, <1>9, ChangeIsCalm
<1>11. Keeps(t, ChangeEvent(t, g, f))
  BY <1>2, <1>10, CalmKeeps
<1> QED
  BY <1>1, <1>8, <1>11, KeepsTransitive

LEMMA UninstalledKeeps ==
    ASSUME NEW s \in GpeRegister, Counted(s), NEW a, a.g \in Gpe
    PROVE  Keeps(s, Uninstalled(s, a))
<1> DEFINE g == a.g
           p == s.ev[g].previous
           f == NewHandler(s.ev[g], NoPrevious, p.type, p.triggering)
           t == ChangeEvent(s, g, f)
<1>1. s.ev[g] \in GpEvent
  BY DEF GpeRegister
<1>2. p \in [type : HandlerType, triggering : Triggering, enabled : BOOLEAN]
  BY <1>1 DEF GpEvent
<1>3. NoPrevious \in [type : HandlerType, triggering : Triggering, enabled : BOOLEAN]
  BY DEF NoPrevious, HandlerType, Triggering
<1>4. f \in GpEvent /\ f.users = s.ev[g].users
  BY <1>1, <1>2, <1>3 DEF NewHandler, GpEvent
<1>5. t = [s EXCEPT !.ev[g].type = p.type, !.ev[g].triggering = p.triggering,
                    !.ev[g].previous = NoPrevious]
  BY <1>1 DEF ChangeEvent, NewHandler, GpeRegister, GpEvent
<1>6. Uninstalled(s, a) \in {t, gpe_add_user(t, g, FALSE)}
  BY <1>5 DEF Uninstalled
<1> HIDE DEF f, g
<1>7. g \in Gpe
  BY DEF g
<1>8. Calm(s, t)
  BY <1>4, <1>7, ChangeIsCalm
<1>9. Keeps(s, t)
  BY <1>8, CalmKeeps
<1>10. t \in GpeRegister /\ Counted(t)
  BY <1>9 DEF Keeps
<1> HIDE DEF t
<1>11. Keeps(t, gpe_add_user(t, g, FALSE))
  BY <1>7, <1>10, AddUserKeeps
<1>12. Keeps(s, gpe_add_user(t, g, FALSE))
  BY <1>9, <1>11, KeepsTransitive
<1> QED
  BY <1>6, <1>9, <1>12

\* Single fields of an event, as uacpi_setup_gpe_for_wake sets them.
LEMMA WakeFieldsKeep ==
    ASSUME NEW s \in GpeRegister, Counted(s), NEW g \in Gpe, NEW D \in SUBSET Device
    PROVE  /\ Keeps(s, [s EXCEPT !.ev[g].wake = TRUE])
           /\ Keeps(s, [s EXCEPT !.ev[g].type = "IMPLICIT_NOTIFY", !.ev[g].triggering = "LEVEL"])
           /\ Keeps(s, [s EXCEPT !.ev[g].devices = @ \cup D])
<1> DEFINE e == s.ev[g]
           w == [e EXCEPT !.wake = TRUE]
           i == [e EXCEPT !.type = "IMPLICIT_NOTIFY", !.triggering = "LEVEL"]
           d == [e EXCEPT !.devices = e.devices \cup D]
<1>1. e \in GpEvent
  BY DEF GpeRegister
<1>2. w \in GpEvent /\ w.users = e.users
  BY <1>1 DEF GpEvent
<1>3. i \in GpEvent /\ i.users = e.users
  BY <1>1 DEF GpEvent, HandlerType, Triggering
<1>4. d \in GpEvent /\ d.users = e.users
  BY <1>1 DEF GpEvent
<1>5. /\ [s EXCEPT !.ev[g].wake = TRUE] = ChangeEvent(s, g, w)
      /\ [s EXCEPT !.ev[g].devices = @ \cup D] = ChangeEvent(s, g, d)
  BY DEF ChangeEvent, GpeRegister
<1>6. [s EXCEPT !.ev[g].type = "IMPLICIT_NOTIFY", !.ev[g].triggering = "LEVEL"] = ChangeEvent(s, g, i)
  BY <1>1 DEF ChangeEvent, GpeRegister, GpEvent
<1> HIDE DEF w, i, d
<1>7. Calm(s, ChangeEvent(s, g, w)) /\ Calm(s, ChangeEvent(s, g, i)) /\ Calm(s, ChangeEvent(s, g, d))
  BY <1>2, <1>3, <1>4, ChangeIsCalm
<1>8. Keeps(s, ChangeEvent(s, g, w)) /\ Keeps(s, ChangeEvent(s, g, i)) /\ Keeps(s, ChangeEvent(s, g, d))
  BY <1>7, CalmKeeps
<1> QED
  BY <1>5, <1>6, <1>8

LEMMA WakeConfiguredKeeps ==
    ASSUME NEW s \in GpeRegister, Counted(s), NEW a, a.g \in Gpe, a.device \in SUBSET Device
    PROVE  Keeps(s, WakeConfigured(s, a))
<1> DEFINE g == a.g
           e == s.ev[g]
           i == IF e.type = "NONE"
                THEN [s EXCEPT !.ev[g].type = "IMPLICIT_NOTIFY", !.ev[g].triggering = "LEVEL"]
                ELSE IF e.type = "AML_HANDLER" THEN gpe_remove_user(s, g) ELSE s
           d == [i EXCEPT !.ev[g].devices = @ \cup a.device]
           n == IF i.ev[g].type = "IMPLICIT_NOTIFY" THEN d ELSE i
           w == [n EXCEPT !.ev[g].wake = TRUE]
           v == [s EXCEPT !.ev[g].wake = TRUE]
<1>1. WakeConfigured(s, a) \in {v, s, w}
  BY DEF WakeConfigured
<1>2. Keeps(s, i)
  BY WakeFieldsKeep, RemoveUserKeeps, KeepsReflexive
<1>3. i \in GpeRegister /\ Counted(i)
  BY <1>2, SMTT(30) DEF Keeps
<1>4. Keeps(s, v)
  BY WakeFieldsKeep
<1> HIDE DEF i, v
<1>5. Keeps(i, d)
  BY <1>3, WakeFieldsKeep
<1> HIDE DEF d
<1>6. Keeps(i, n)
  BY <1>3, <1>5, KeepsReflexive
<1>7. n \in GpeRegister /\ Counted(n)
  BY <1>6 DEF Keeps
<1> HIDE DEF n
<1>8. Keeps(n, w)
  BY <1>7, WakeFieldsKeep
<1> HIDE DEF w
<1>9. Keeps(s, n)
  BY <1>2, <1>6, KeepsTransitive
<1>10. Keeps(s, w)
  BY <1>8, <1>9, KeepsTransitive
<1>11. Keeps(s, s)
  BY KeepsReflexive
<1> QED
  BY <1>1, <1>4, <1>10, <1>11

(***************************************************************************)
(* Dispatch.                                                               *)
(***************************************************************************)
WorkItems == {"run", "restore"} \X Gpe

\* What the interrupt and a poll do: calm, and at most one more item of work.
LEMMA DispatchIsCalm ==
    ASSUME NEW s \in GpeRegister, NEW w, NEW g \in Gpe,
           NEW p \in dispatch_gpe([s |-> s, work |-> w], g)
    PROVE  /\ Calm(s, p.s)
           /\ p.work = w \/ (host = "queues" /\ p.work = Append(w, <<"run", g>>))
<1> DEFINE q == [s |-> s, work |-> w]
           e == s.ev[g]
           b == set_gpe_state(s, g, "DISABLED")
           d == [b EXCEPT !.ev[g].block = TRUE]
           c == IF e.triggering = "EDGE" THEN clear_gpe(d, g) ELSE d
           r == restore_gpe(c, g)
           o == [q EXCEPT !.s = c]
<1>1. /\ b \in GpeRegister /\ Calm(s, b)
  BY DisableIsCalm DEF Calm
<1>2. q.s = s /\ q.work = w
  OBVIOUS
<1>3. \/ p = q \/ p = o \/ p = [q EXCEPT !.s = r]
      \/ host = "queues" /\ p = [o EXCEPT !.work = Append(o.work, <<"run", g>>)]
  BY <1>2 DEF dispatch_gpe, uacpi_kernel_schedule_work
<1> HIDE DEF b
<1>4. Calm(b, d)
  BY <1>1, BlockIsCalm
<1>5. d \in GpeRegister
  BY <1>4 DEF Calm
<1> HIDE DEF d
<1>6. Calm(d, c)
  BY <1>5, ClearIsCalm, CalmReflexive
<1>7. c \in GpeRegister
  BY <1>6 DEF Calm
<1> HIDE DEF c
<1>8. Calm(s, d)
  BY <1>1, <1>4, CalmTransitive
<1>9. Calm(s, c)
  BY <1>6, <1>8, CalmTransitive
<1>10. Calm(c, r)
  BY <1>7, RestoreIsCalm
<1> HIDE DEF r
<1>11. Calm(s, r)
  BY <1>9, <1>10, CalmTransitive
<1>12. Calm(s, s)
  BY CalmReflexive
<1>13. ASSUME p = q PROVE p.s = s /\ p.work = w
  BY <1>13
<1>14. ASSUME p = o PROVE p.s = c /\ p.work = w
  BY <1>14
<1>15. ASSUME p = [q EXCEPT !.s = r] PROVE p.s = r /\ p.work = w
  BY <1>15
<1>16. ASSUME p = [o EXCEPT !.work = Append(o.work, <<"run", g>>)]
       PROVE  p.s = c /\ p.work = Append(w, <<"run", g>>)
  BY <1>16
<1> HIDE DEF q, o
<1> QED
  BY <1>3, <1>9, <1>11, <1>12, <1>13, <1>14, <1>15, <1>16

(***************************************************************************)
(* The inductive invariant.  MaskedIsSilent needs to know what a worker    *)
(* that has tested the masks is going to write, and SwapIsQuietHere that   *)
(* current_mask, which gpe_mask_safe asks, covers what is enabled.         *)
(***************************************************************************)
RegisterOK(s) == s \in GpeRegister /\ Counted(s)

QueueOK(q, w, h) ==
    /\ q \in Seq(WorkItems) /\ h \in {"queues", "refuses"}
    /\ w \in [pc : {"idle", "restoring"}, g : Nat, set : BOOLEAN]
    /\ w.pc = "restoring" => w.g \in Gpe
    /\ h = "refuses" => q = <<>> /\ w.pc = "idle"

GpeCalls ==
    [op : {"none", "install", "uninstall", "wake", "mask", "enable", "finalize", "sleep"},
     pc : {"idle", "masking", "modify", "poll", "asleep", "finalize", "detect"},
     g : Nat, type : HandlerType, triggering : Triggering, device : SUBSET Device,
     masked : BOOLEAN, left : SUBSET Gpe, poll : BOOLEAN]

CallOK(a) == a \in GpeCalls /\ (a.pc \in {"masking", "modify", "poll"} => a.g \in Gpe)

MasksOK(s, a, w, h) ==
    /\ a.pc = "masking" => a.g \in s.masked
    /\ a.pc # "asleep" => s.masked \cap s.enable \subseteq (IF a.pc = "masking" THEN {a.g} ELSE {})
    /\ a.pc # "asleep" => s.current \subseteq s.runtime
    /\ a.pc # "asleep" /\ h = "refuses" => s.enable \subseteq s.current
    /\ a.pc = "modify" /\ h = "refuses" =>
         a.g \notin s.enable /\ (a.g \notin s.current \/ a.g \in s.masked)
    /\ w.pc = "restoring" /\ w.set /\ w.g \in s.masked => a.pc = "masking" /\ w.g = a.g

GpeIInv ==
    /\ RegisterOK(gpe) /\ QueueOK(work, worker, host) /\ scanning \in SUBSET Gpe
    /\ CallOK(api) /\ MasksOK(gpe, api, worker, host)

LEMMA CalmMasks ==
    ASSUME NEW s \in GpeRegister, NEW r, NEW a, NEW w, NEW h, Calm(s, r), MasksOK(s, a, w, h)
    PROVE  MasksOK(r, a, w, h)
  BY DEF Calm, SameMasks, MasksOK

LEMMA KeepsMasks ==
    ASSUME NEW s \in GpeRegister, NEW r, NEW a, NEW w, NEW h, Keeps(s, r), MasksOK(s, a, w, h),
           a.pc \notin {"masking", "modify", "asleep"}
    PROVE  MasksOK(r, a, w, h)
  BY DEF Keeps, MasksOK

\* A call goes on to a part of it that holds no mask.
LEMMA NextMasks ==
    ASSUME NEW s, NEW a, NEW b, NEW w, NEW h, MasksOK(s, a, w, h),
           a.pc \notin {"masking", "asleep"}, b.pc \notin {"masking", "modify", "asleep"}
    PROVE  MasksOK(s, b, w, h)
  BY DEF MasksOK

LEMMA IdleOK == CallOK(Idle) /\ Idle.pc = "idle"
  BY DEF CallOK, Idle, GpeCalls, HandlerType, Triggering

\* A call that ends with one step on the register.
LEMMA RegisterStep ==
    ASSUME GpeIInv, Call, NEW s, Register(s), Keeps(gpe, s)
    PROVE  GpeIInv'
<1>1. RegisterOK(s)
  BY DEF Keeps, RegisterOK
<1>2. MasksOK(s, api, worker, host)
  BY KeepsMasks DEF GpeIInv, RegisterOK, Call
<1> QED
  BY <1>1, <1>2 DEF GpeIInv, Register

\* A step that is calm and goes on with the call, or ends it.
LEMMA CalmStep ==
    ASSUME GpeIInv, Calm(gpe, gpe'), UNCHANGED <<worker, host>>,
           QueueOK(work', worker, host), scanning' \in SUBSET Gpe,
           \/ UNCHANGED api
           \/ /\ CallOK(api') /\ api.pc \notin {"masking", "asleep"}
              /\ api'.pc \notin {"masking", "modify", "asleep"}
    PROVE  GpeIInv'
<1>1. RegisterOK(gpe')
  BY CalmKeeps DEF GpeIInv, RegisterOK, Keeps
<1>2. MasksOK(gpe', api, worker, host)
  BY CalmMasks DEF GpeIInv, RegisterOK
<1>3. MasksOK(gpe', api', worker, host) /\ CallOK(api')
  BY <1>2, NextMasks DEF GpeIInv
<1> QED
  BY <1>1, <1>3 DEF GpeIInv

\* One event dispatched.
LEMMA BecomesCalm ==
    ASSUME GpeIInv, NEW g \in Gpe,
           Becomes(dispatch_gpe(Pair, g)) \/ Becomes(maybe_dispatch_gpe(Pair, g))
    PROVE  Calm(gpe, gpe') /\ QueueOK(work', worker, host)
<1>1. gpe \in GpeRegister /\ QueueOK(work, worker, host)
  BY DEF GpeIInv, RegisterOK
<1>2. CASE Becomes(dispatch_gpe(Pair, g))
  <2>1. PICK p \in dispatch_gpe([s |-> gpe, work |-> work], g) : gpe' = p.s /\ work' = p.work
    BY <1>2 DEF Becomes, Pair
  <2>2. /\ Calm(gpe, gpe')
        /\ work' = work \/ (host = "queues" /\ work' = Append(work, <<"run", g>>))
    BY <1>1, <2>1, DispatchIsCalm
  <2>3. <<"run", g>> \in WorkItems /\ work \in Seq(WorkItems)
    BY <1>1 DEF WorkItems, QueueOK
  <2>4. Append(work, <<"run", g>>) \in Seq(WorkItems)
    BY <2>3, AppendProperties
  <2>5. QueueOK(work', worker, host)
    BY <1>1, <2>2, <2>4 DEF QueueOK
  <2> QED
    BY <2>2, <2>5
<1>3. CASE Becomes(maybe_dispatch_gpe(Pair, g)) /\ ~Becomes(dispatch_gpe(Pair, g))
  <2>1. gpe' = gpe /\ work' = work
    BY <1>3 DEF maybe_dispatch_gpe, Becomes, Pair
  <2> QED
    BY <1>1, <2>1, CalmReflexive
<1> QED
  BY <1>2, <1>3

LEMMA DispatchStep ==
    ASSUME GpeIInv, NEW left \in SUBSET Gpe, Dispatch(left)
    PROVE  GpeIInv'
<1>1. PICK g \in left : Becomes(dispatch_gpe(Pair, g)) /\ scanning' = left \ {g}
  BY DEF Dispatch
<1>2. UNCHANGED <<worker, host>> /\ UNCHANGED api
  BY DEF Dispatch
<1>3. g \in Gpe /\ scanning' \in SUBSET Gpe
  BY <1>1
<1>4. Calm(gpe, gpe') /\ QueueOK(work', worker, host)
  BY <1>1, <1>3, BecomesCalm
<1> QED
  BY <1>2, <1>3, <1>4, CalmStep

LEMMA DetectedIsSome == ASSUME GpeIInv PROVE Detected \in SUBSET Gpe
  BY DEF GpeIInv, RegisterOK, GpeRegister, Detected

(***************************************************************************)
(* The worker.                                                             *)
(***************************************************************************)
LEMMA RunStep == ASSUME GpeIInv, async_run_gpe_handler PROVE GpeIInv'
<1>1. QueueOK(work, worker, host)
  BY DEF GpeIInv
<1>2. work # <<>> /\ work \in Seq(WorkItems)
  BY <1>1 DEF async_run_gpe_handler, QueueOK
<1>3. Head(work) \in WorkItems /\ Tail(work) \in Seq(WorkItems)
  BY <1>2, HeadTailProperties
<1>4. <<"restore", Head(work)[2]>> \in WorkItems
  BY <1>3 DEF WorkItems
<1>5. Append(Tail(work), <<"restore", Head(work)[2]>>) \in Seq(WorkItems)
  BY <1>3, <1>4, AppendProperties
<1>6. host # "refuses"
  BY <1>1, <1>2 DEF QueueOK
<1>7. QueueOK(work', worker, host)
  BY <1>1, <1>5, <1>6 DEF QueueOK, async_run_gpe_handler
<1> QED
  BY <1>7 DEF GpeIInv, async_run_gpe_handler

LEMMA RestoreStep == ASSUME GpeIInv, async_restore_gpe PROVE GpeIInv'
<1> DEFINE g == Head(work)[2]
           t == restore_begin(gpe, g)
           u == set_gpe_state(t, g, "ENABLED_CONDITIONALLY")
           w == [pc |-> "restoring", g |-> g, set |-> u # t]
<1>1. QueueOK(work, worker, host) /\ RegisterOK(gpe) /\ MasksOK(gpe, api, worker, host)
  BY DEF GpeIInv
<1>2. work # <<>> /\ work \in Seq(WorkItems)
  BY <1>1 DEF async_restore_gpe, QueueOK
<1>3. Head(work) \in WorkItems /\ Tail(work) \in Seq(WorkItems)
  BY <1>2, HeadTailProperties
<1>4. g \in Gpe /\ g \in Nat
  BY <1>3, GpeAssumption DEF WorkItems
<1>5. gpe' = t /\ worker' = w /\ work' = Tail(work) /\ UNCHANGED <<api, host, scanning>>
  BY DEF async_restore_gpe
<1>6. worker.pc = "idle" /\ host # "refuses"
  BY <1>1, <1>2 DEF QueueOK, async_restore_gpe
<1> HIDE DEF g
<1>7. Calm(gpe, t)
  BY <1>1, <1>4, RestoreIsCalm DEF RegisterOK
<1>8. t.masked = gpe.masked
  BY <1>7 DEF Calm, SameMasks
<1>9. g \in t.masked => u = t
  BY DEF set_gpe_state
<1> HIDE DEF t, u
<1>10. w.pc = "restoring" /\ w.g = g /\ (w.set <=> u # t)
       /\ w \in [pc : {"idle", "restoring"}, g : Nat, set : BOOLEAN]
  BY <1>4
<1> HIDE DEF w
<1>11. QueueOK(work', worker', host')
  BY <1>1, <1>3, <1>4, <1>5, <1>6, <1>10 DEF QueueOK
<1>12. RegisterOK(t)
  BY <1>1, <1>7, CalmKeeps DEF RegisterOK, Keeps
<1>13. MasksOK(t, api, worker, host)
  BY <1>1, <1>7, CalmMasks DEF RegisterOK
<1>14. MasksOK(t, api, w, host)
  BY <1>8, <1>9, <1>10, <1>13 DEF MasksOK
<1> QED
  BY <1>5, <1>11, <1>12, <1>14 DEF GpeIInv

LEMMA RestoredStep == ASSUME GpeIInv, async_restore_done PROVE GpeIInv'
<1> DEFINE g == worker.g
           E == IF worker.set THEN gpe.enable \cup {g} ELSE gpe.enable
           t == [gpe EXCEPT !.enable = E]
           u == [t EXCEPT !.ev[g].block = FALSE]
<1>1. QueueOK(work, worker, host) /\ RegisterOK(gpe) /\ MasksOK(gpe, api, worker, host)
  BY DEF GpeIInv
<1>2. worker.pc = "restoring" /\ worker' = IdleWorker /\ UNCHANGED <<work, api, host, scanning>>
  BY DEF async_restore_done
<1>3. g \in Gpe /\ host # "refuses" /\ gpe \in GpeRegister
  BY <1>1, <1>2 DEF QueueOK, RegisterOK
<1>4. gpe' = u
  BY <1>3 DEF async_restore_done, GpeRegister
<1>5. E \in SUBSET Gpe
  BY <1>3 DEF GpeRegister
<1>6. worker.set \/ E = gpe.enable
  OBVIOUS
<1>7. E \subseteq gpe.enable \cup {g}
  OBVIOUS
<1> HIDE DEF E
<1>8. t \in GpeRegister /\ SameMasks(gpe, t) /\ t.ev = gpe.ev /\ t.enable = E
  BY <1>3, <1>5 DEF GpeRegister, SameMasks
<1> HIDE DEF t
<1>9. RegisterOK(t)
  BY <1>1, <1>8 DEF RegisterOK, Counted, SameMasks
<1>10. MasksOK(t, api, IdleWorker, host)
  BY <1>1, <1>2, <1>3, <1>6, <1>7, <1>8 DEF MasksOK, SameMasks, IdleWorker
<1>11. Calm(t, u)
  BY <1>3, <1>8, BlockIsCalm
<1> HIDE DEF u
<1>12. RegisterOK(u)
  BY <1>9, <1>11, CalmKeeps DEF RegisterOK, Keeps
<1>13. MasksOK(u, api, IdleWorker, host)
  BY <1>8, <1>10, <1>11, CalmMasks
<1>14. QueueOK(work, IdleWorker, host)
  BY <1>1 DEF QueueOK, IdleWorker
<1> QED
  BY <1>2, <1>4, <1>12, <1>13, <1>14 DEF GpeIInv

LEMMA WorkerStep == ASSUME GpeIInv, Worker PROVE GpeIInv'
  BY RunStep, RestoreStep, RestoredStep DEF Worker

(***************************************************************************)
(* Calls that mask the event.                                              *)
(***************************************************************************)
LEMMA BeginStep ==
    ASSUME GpeIInv, NEW op \in {"install", "uninstall", "wake", "mask"}, NEW g \in Gpe,
           NEW type \in HandlerType, NEW trig \in Triggering, NEW D \in SUBSET Device,
           BeginMasked(op, g, type, trig, D)
    PROVE  GpeIInv'
<1> DEFINE safe == op = "mask" \/ g \in gpe.current
           a == [Idle EXCEPT !.op = op, !.g = g, !.type = type, !.triggering = trig,
                             !.device = D, !.masked = safe,
                             !.pc = IF safe /\ g \notin gpe.masked THEN "masking" ELSE "modify"]
           s == IF safe THEN [gpe EXCEPT !.masked = @ \cup {g}] ELSE gpe
<1>1. RegisterOK(gpe) /\ QueueOK(work, worker, host) /\ MasksOK(gpe, api, worker, host)
      /\ api.pc = "idle" /\ gpe \in GpeRegister
  BY DEF GpeIInv, RegisterOK, BeginMasked, Call
<1>2. api' = a /\ gpe' = s /\ UNCHANGED <<work, worker, host, scanning>>
  BY DEF BeginMasked
<1>3. a.g = g /\ a.pc = IF safe /\ g \notin gpe.masked THEN "masking" ELSE "modify"
  BY DEF Idle
<1>4. CallOK(a)
  BY GpeAssumption, ZenonT(60) DEF CallOK, Idle, GpeCalls
<1>5. /\ s \in GpeRegister /\ s.ev = gpe.ev /\ s.runtime = gpe.runtime
      /\ s.current = gpe.current /\ s.enable = gpe.enable
  BY <1>1 DEF GpeRegister
<1>6. s.masked = IF safe THEN gpe.masked \cup {g} ELSE gpe.masked
  BY <1>1 DEF GpeRegister
<1> HIDE DEF a, s
<1>7. RegisterOK(s)
  BY <1>1, <1>5 DEF RegisterOK, Counted
<1>8. CASE safe /\ g \notin gpe.masked
  <2>1. s.masked = gpe.masked \cup {g} /\ a.pc = "masking" /\ a.g = g
    BY <1>3, <1>6, <1>8
  <2>2. MasksOK(s, a, worker, host)
    BY <1>1, <1>5, <2>1 DEF MasksOK
  <2> QED
    BY <1>2, <1>4, <1>7, <2>2 DEF GpeIInv
<1>9. CASE ~(safe /\ g \notin gpe.masked)
  <2>1. s.masked = gpe.masked /\ a.pc = "modify" /\ a.g = g
    BY <1>3, <1>6, <1>9
  <2>2. g \notin gpe.current \/ g \in gpe.masked
    BY <1>9
  <2>3. MasksOK(s, a, worker, host)
    BY <1>1, <1>5, <2>1, <2>2 DEF MasksOK
  <2> QED
    BY <1>2, <1>4, <1>7, <2>3 DEF GpeIInv
<1> QED
  BY <1>8, <1>9

LEMMA MaskedStep == ASSUME GpeIInv, gpe_mask_unmask PROVE GpeIInv'
<1> DEFINE s == set_gpe_state(gpe, api.g, "DISABLED")
           a == [api EXCEPT !.pc = "modify"]
<1>1. RegisterOK(gpe) /\ QueueOK(work, worker, host) /\ MasksOK(gpe, api, worker, host)
      /\ CallOK(api) /\ api.pc = "masking" /\ gpe \in GpeRegister
  BY DEF GpeIInv, RegisterOK, gpe_mask_unmask
<1>2. api' = a /\ gpe' = s /\ wait_for_work_completion /\ UNCHANGED <<work, worker, host, scanning>>
  BY DEF gpe_mask_unmask, DisableWhenQuiet
<1>3. api.g \in Gpe /\ api \in GpeCalls
  BY <1>1 DEF CallOK
<1>4. a \in GpeCalls /\ a.pc = "modify" /\ a.g = api.g
  BY <1>3 DEF GpeCalls
<1>5. worker.pc = "idle"
  BY <1>1, <1>2 DEF wait_for_work_completion, QueueOK
<1>6. s \in GpeRegister /\ SameMasks(gpe, s) /\ s.ev = gpe.ev /\ s.enable = gpe.enable \ {api.g}
  BY <1>1, <1>3, SetState
<1> HIDE DEF a, s
<1>7. RegisterOK(s)
  BY <1>1, <1>6 DEF RegisterOK, Counted, SameMasks
<1>8. MasksOK(s, a, worker, host)
  BY <1>1, <1>4, <1>5, <1>6 DEF MasksOK, SameMasks
<1>9. CallOK(a)
  BY <1>3, <1>4 DEF CallOK
<1> QED
  BY <1>2, <1>7, <1>8, <1>9 DEF GpeIInv

LEMMA FinishStep == ASSUME GpeIInv, FinishMasked PROVE GpeIInv'
<1> DEFINE t == CASE api.op = "install" -> Installed(gpe, api)
                  [] api.op = "uninstall" -> Uninstalled(gpe, api)
                  [] api.op = "wake" -> WakeConfigured(gpe, api)
                  [] OTHER -> gpe
           u == gpe_unmask(t, api.g)
<1>1. RegisterOK(gpe) /\ QueueOK(work, worker, host) /\ MasksOK(gpe, api, worker, host)
      /\ CallOK(api) /\ api.pc = "modify" /\ gpe \in GpeRegister /\ Counted(gpe)
  BY DEF GpeIInv, RegisterOK, FinishMasked
<1>2. gpe' \in {t, u} /\ UNCHANGED <<work, worker, host, scanning>>
      /\ api' \in {[api EXCEPT !.pc = "poll"], Idle}
  BY DEF FinishMasked
<1>3. api.g \in Gpe /\ api \in GpeCalls
  BY <1>1 DEF CallOK
<1>4. api.type \in HandlerType /\ api.triggering \in Triggering /\ api.device \in SUBSET Device
  BY <1>3 DEF GpeCalls
<1>5. Keeps(gpe, Installed(gpe, api)) /\ Keeps(gpe, Uninstalled(gpe, api))
      /\ Keeps(gpe, WakeConfigured(gpe, api)) /\ Keeps(gpe, gpe)
  BY <1>1, <1>3, <1>4, InstalledKeeps, UninstalledKeeps, WakeConfiguredKeeps, KeepsReflexive
<1>6. Keeps(gpe, t)
  BY <1>5
<1> HIDE DEF t
<1>7. t \in GpeRegister /\ Counted(t)
  BY <1>6 DEF Keeps
<1>8. Keeps(t, u)
  BY <1>3, <1>7, UnmaskKeeps
<1> HIDE DEF u
<1>9. Keeps(gpe, u)
  BY <1>6, <1>8, KeepsTransitive
<1>10. Keeps(gpe, gpe')
  BY <1>2, <1>6, <1>9
<1>11. CallOK(api') /\ api'.pc \notin {"masking", "modify", "asleep"}
  <2>1. CASE api' = Idle
    BY <2>1, IdleOK
  <2>2. CASE api' = [api EXCEPT !.pc = "poll"]
    BY <1>3, <2>2 DEF CallOK, GpeCalls
  <2> QED
    BY <1>2, <2>1, <2>2
<1>12. MasksOK(gpe, api', worker, host)
  BY <1>1, <1>11, NextMasks
<1>13. MasksOK(gpe', api', worker, host)
  BY <1>1, <1>10, <1>11, <1>12, KeepsMasks
<1>14. RegisterOK(gpe')
  BY <1>10 DEF Keeps, RegisterOK
<1> QED
  BY <1>1, <1>2, <1>11, <1>13, <1>14 DEF GpeIInv

(***************************************************************************)
(* The thread's loops.                                                     *)
(***************************************************************************)
LEMMA PollStep == ASSUME GpeIInv, PollGpe PROVE GpeIInv'
<1>1. CallOK(api) /\ api.pc = "poll" /\ scanning \in SUBSET Gpe
  BY DEF GpeIInv, PollGpe
<1>2. api.g \in Gpe
  BY <1>1 DEF CallOK
<1>3. Becomes(maybe_dispatch_gpe(Pair, api.g)) /\ api' = Idle /\ UNCHANGED <<worker, host, scanning>>
  BY DEF PollGpe
<1>4. Calm(gpe, gpe') /\ QueueOK(work', worker, host)
  BY <1>2, <1>3, BecomesCalm
<1> QED
  BY <1>1, <1>3, <1>4, IdleOK, CalmStep

LEMMA InitializeStep == ASSUME GpeIInv, do_initialize_gpe_block PROVE GpeIInv'
<1>1. RegisterOK(gpe) /\ QueueOK(work, worker, host) /\ MasksOK(gpe, api, worker, host)
      /\ CallOK(api) /\ api.pc = "finalize" /\ gpe \in GpeRegister /\ Counted(gpe)
  BY DEF GpeIInv, RegisterOK, do_initialize_gpe_block
<1>2. api \in GpeCalls /\ UNCHANGED <<work, worker, host, scanning>>
  BY <1>1 DEF CallOK, do_initialize_gpe_block
<1> DEFINE added(g) == /\ ~gpe.ev[g].wake /\ gpe.ev[g].type = "AML_HANDLER"
                       /\ gpe.ev[g].users < MaxUsers
           more(g) == added(g) /\ gpe_needs_polling(gpe'.ev[g])
<1>3. PICK g \in api.left :
        /\ gpe' = IF added(g) THEN gpe_add_user(gpe, g, FALSE) ELSE gpe
        /\ api' = [api EXCEPT !.left = @ \ {g}, !.poll = @ \/ more(g)]
  BY DEF do_initialize_gpe_block
<1>4. g \in Gpe
  BY <1>2, <1>3 DEF GpeCalls
<1>5. Keeps(gpe, gpe')
  BY <1>1, <1>3, <1>4, AddUserKeeps, KeepsReflexive
<1> HIDE DEF more
<1>6. (api.poll \/ more(g)) \in BOOLEAN /\ api.left \ {g} \in SUBSET Gpe
  BY <1>2 DEF GpeCalls
<1>7. api' \in GpeCalls /\ api'.pc = "finalize"
  BY <1>1, <1>2, <1>3, <1>6 DEF GpeCalls
<1>8. CallOK(api') /\ api'.pc \notin {"masking", "modify", "asleep"}
  BY <1>7 DEF CallOK
<1>9. MasksOK(gpe, api', worker, host)
  BY <1>1, <1>8, NextMasks
<1>10. MasksOK(gpe', api', worker, host)
  BY <1>1, <1>5, <1>8, <1>9, KeepsMasks
<1>11. RegisterOK(gpe')
  BY <1>5 DEF Keeps, RegisterOK
<1> QED
  BY <1>1, <1>2, <1>8, <1>10, <1>11 DEF GpeIInv

LEMMA PollBlocksStep == ASSUME GpeIInv, PollBlocks PROVE GpeIInv'
<1> DEFINE a == [api EXCEPT !.pc = "detect", !.left = Detected]
<1>1. CallOK(api) /\ api.pc = "finalize" /\ scanning \in SUBSET Gpe
      /\ gpe \in GpeRegister /\ QueueOK(work, worker, host)
  BY DEF GpeIInv, PollBlocks, RegisterOK
<1>2. api' \in {a, Idle} /\ UNCHANGED <<gpe, work, worker, host, scanning>>
  BY DEF PollBlocks
<1>3. a \in GpeCalls /\ a.pc = "detect"
  BY <1>1, DetectedIsSome DEF CallOK, GpeCalls
<1>4. CallOK(a) /\ a.pc \notin {"masking", "modify", "asleep"}
  BY <1>3 DEF CallOK
<1> HIDE DEF a
<1>5. CallOK(api') /\ api'.pc \notin {"masking", "modify", "asleep"}
  BY <1>2, <1>4, IdleOK
<1>6. Calm(gpe, gpe')
  BY <1>1, <1>2, CalmReflexive
<1> QED
  BY <1>1, <1>2, <1>5, <1>6, CalmStep

LEMMA PollDetectedStep == ASSUME GpeIInv, PollDetected PROVE GpeIInv'
<1>1. CallOK(api) /\ api.pc = "detect" /\ scanning \in SUBSET Gpe /\ api \in GpeCalls
  BY DEF GpeIInv, PollDetected, CallOK
<1>2. PICK g \in api.left :
        /\ Becomes(dispatch_gpe(Pair, g))
        /\ api' = IF api.left = {g} THEN Idle ELSE [api EXCEPT !.left = @ \ {g}]
  BY DEF PollDetected
<1>3. g \in Gpe /\ api.left \ {g} \in SUBSET Gpe /\ UNCHANGED <<worker, host, scanning>>
  BY <1>1, <1>2 DEF GpeCalls, PollDetected
<1>4. Calm(gpe, gpe') /\ QueueOK(work', worker, host)
  BY <1>2, <1>3, BecomesCalm
<1>5. CallOK(api') /\ api'.pc \notin {"masking", "modify", "asleep"}
  <2>1. CASE api' = Idle
    BY <2>1, IdleOK
  <2>2. CASE api' = [api EXCEPT !.left = @ \ {g}]
    BY <1>1, <1>3, <2>2 DEF CallOK, GpeCalls
  <2> QED
    BY <1>2, <2>1, <2>2
<1> QED
  BY <1>1, <1>3, <1>4, <1>5, CalmStep

LEMMA ApiStep == ASSUME GpeIInv, ApiRest PROVE GpeIInv'
  BY MaskedStep, FinishStep, PollStep, InitializeStep, PollBlocksStep, PollDetectedStep
     DEF ApiRest

LEMMA FinalizeStep == ASSUME GpeIInv, uacpi_finalize_gpe_initialization PROVE GpeIInv'
<1> DEFINE a == [Idle EXCEPT !.op = "finalize", !.pc = "finalize", !.left = Gpe]
<1>1. /\ api.pc = "idle" /\ gpe \in GpeRegister /\ QueueOK(work, worker, host)
      /\ scanning \in SUBSET Gpe
  BY DEF GpeIInv, RegisterOK, uacpi_finalize_gpe_initialization, Call
<1>2. gpe' = [gpe EXCEPT !.finalized = TRUE] /\ api' = a /\ UNCHANGED <<work, worker, host, scanning>>
  BY DEF uacpi_finalize_gpe_initialization
<1>3. Calm(gpe, gpe')
  BY <1>1, <1>2 DEF Calm, SameMasks, SameUsers, GpeRegister
<1>4. a \in GpeCalls /\ a.pc = "finalize"
  BY DEF Idle, GpeCalls, HandlerType, Triggering
<1>5. CallOK(a) /\ a.pc \notin {"masking", "modify", "asleep"}
  BY <1>4 DEF CallOK
<1> HIDE DEF a
<1> QED
  BY <1>1, <1>2, <1>3, <1>5, CalmStep

(***************************************************************************)
(* Sleeping.                                                               *)
(***************************************************************************)
LEMMA ApplyMask ==
    ASSUME NEW s \in GpeRegister
    PROVE  LET off == gpe_block_apply_action(s, "DISABLE_ALL")
               clear == gpe_block_apply_action(s, "CLEAR_ALL")
               wake == gpe_block_apply_action(s, "ENABLE_ALL_FOR_WAKE")
               run == gpe_block_apply_action(s, "ENABLE_ALL_FOR_RUNTIME")
           IN  /\ off = [s EXCEPT !.current = {}, !.enable = {}]
               /\ clear = [s EXCEPT !.status = {}]
               /\ wake = [s EXCEPT !.current = s.wakes, !.enable = s.wakes]
               /\ run = [s EXCEPT !.current = s.runtime \ s.masked, !.enable = s.runtime \ s.masked]
  BY DEF gpe_block_apply_action

\* Down to the wake events, and back to those that are in use and not masked.
LEMMA SleptRegister ==
    ASSUME NEW s \in GpeRegister, Counted(s)
    PROVE  LET down == gpe_block_apply_action(
                         gpe_block_apply_action(gpe_block_apply_action(s, "DISABLE_ALL"),
                                                "CLEAR_ALL"), "ENABLE_ALL_FOR_WAKE")
               up == gpe_block_apply_action(gpe_block_apply_action(s, "DISABLE_ALL"),
                                            "ENABLE_ALL_FOR_RUNTIME")
           IN  /\ RegisterOK(down) /\ RegisterOK(up)
               /\ down.masked = s.masked /\ up.masked = s.masked /\ up.runtime = s.runtime
               /\ down.enable = s.wakes /\ down.wakes = s.wakes
               /\ up.enable = s.runtime \ s.masked /\ up.current = s.runtime \ s.masked
<1> DEFINE off == [s EXCEPT !.current = {}, !.enable = {}]
           clear == [off EXCEPT !.status = {}]
           down == [clear EXCEPT !.current = clear.wakes, !.enable = clear.wakes]
           M == off.runtime \ off.masked
           up == [off EXCEPT !.current = M, !.enable = M]
<1>1. /\ off \in GpeRegister /\ off.ev = s.ev /\ off.runtime = s.runtime
      /\ off.masked = s.masked /\ off.wakes = s.wakes
  BY DEF GpeRegister
<1>2. gpe_block_apply_action(s, "DISABLE_ALL") = off
  BY ApplyMask
<1> HIDE DEF off
<1>3. /\ clear \in GpeRegister /\ clear.ev = s.ev /\ clear.runtime = s.runtime
      /\ clear.masked = s.masked /\ clear.wakes = s.wakes
  BY <1>1, SMTT(30) DEF GpeRegister
<1>4. gpe_block_apply_action(off, "CLEAR_ALL") = clear /\ gpe_block_apply_action(off, "ENABLE_ALL_FOR_RUNTIME") = up
  BY <1>1, ApplyMask
<1> HIDE DEF clear
<1>5. /\ down \in GpeRegister /\ down.ev = s.ev /\ down.runtime = s.runtime
      /\ down.masked = s.masked /\ down.wakes = s.wakes /\ down.enable = s.wakes
  BY <1>3 DEF GpeRegister
<1>6. gpe_block_apply_action(clear, "ENABLE_ALL_FOR_WAKE") = down
  BY <1>3, ApplyMask
<1>7. M \in SUBSET Gpe /\ M = s.runtime \ s.masked
  BY <1>1 DEF GpeRegister
<1> HIDE DEF M
<1>8. /\ up \in GpeRegister /\ up.ev = s.ev /\ up.runtime = s.runtime
      /\ up.masked = s.masked /\ up.enable = M /\ up.current = M
  BY <1>1, <1>7 DEF GpeRegister
<1> HIDE DEF down, up
<1>9. RegisterOK(down) /\ RegisterOK(up)
  BY <1>5, <1>8 DEF RegisterOK, Counted
<1> QED
  BY <1>2, <1>4, <1>5, <1>6, <1>7, <1>8, <1>9

LEMMA SleepGpesStep == ASSUME GpeIInv, SleepGpes PROVE GpeIInv'
<1> DEFINE a == [Idle EXCEPT !.op = "sleep", !.pc = "asleep"]
<1>1. /\ api.pc = "idle" /\ RegisterOK(gpe) /\ QueueOK(work, worker, host)
      /\ scanning \in SUBSET Gpe /\ MasksOK(gpe, api, worker, host)
  BY DEF GpeIInv, SleepGpes, Call
<1>2. api' = a /\ UNCHANGED <<work, worker, host, scanning>>
  BY DEF SleepGpes
<1>3. RegisterOK(gpe') /\ gpe'.masked = gpe.masked
  BY <1>1, SleptRegister DEF SleepGpes, RegisterOK
<1>4. a \in GpeCalls /\ a.pc = "asleep"
  BY DEF Idle, GpeCalls, HandlerType, Triggering
<1>5. CallOK(a)
  BY <1>4 DEF CallOK
<1> HIDE DEF a
<1>6. MasksOK(gpe', a, worker, host)
  BY <1>1, <1>3, <1>4 DEF MasksOK
<1> QED
  BY <1>1, <1>2, <1>3, <1>5, <1>6 DEF GpeIInv

LEMMA WakeGpesStep == ASSUME GpeIInv, WakeGpes PROVE GpeIInv'
<1>1. /\ api.pc = "asleep" /\ RegisterOK(gpe) /\ QueueOK(work, worker, host)
      /\ scanning \in SUBSET Gpe /\ MasksOK(gpe, api, worker, host)
  BY DEF GpeIInv, WakeGpes
<1>2. api' = Idle /\ UNCHANGED <<work, worker, host, scanning>>
  BY DEF WakeGpes
<1>3. /\ RegisterOK(gpe') /\ gpe'.masked = gpe.masked /\ gpe'.runtime = gpe.runtime
      /\ gpe'.enable = gpe.runtime \ gpe.masked /\ gpe'.current = gpe.runtime \ gpe.masked
  BY <1>1, SleptRegister DEF WakeGpes, RegisterOK
<1>4. MasksOK(gpe', Idle, worker, host)
  BY <1>1, <1>3, IdleOK DEF MasksOK
<1> QED
  BY <1>1, <1>2, <1>3, <1>4, IdleOK DEF GpeIInv

(***************************************************************************)
(* Calls on one event.                                                     *)
(***************************************************************************)
LEMMA RaiseStep == ASSUME GpeIInv, NEW g \in Gpe, RaiseGpe(g) PROVE GpeIInv'
<1>1. gpe \in GpeRegister /\ QueueOK(work, worker, host) /\ scanning \in SUBSET Gpe
  BY DEF GpeIInv, RegisterOK
<1>2. gpe' = [gpe EXCEPT !.status = gpe.status \cup {g}] /\ UNCHANGED <<work, worker, api, host, scanning>>
  BY DEF RaiseGpe
<1>3. Calm(gpe, gpe')
  BY <1>1, <1>2 DEF Calm, SameMasks, SameUsers, GpeRegister
<1> QED
  BY <1>1, <1>2, <1>3, CalmStep

LEMMA EnableStep == ASSUME GpeIInv, NEW g \in Gpe, uacpi_enable_gpe(g) PROVE GpeIInv'
<1> DEFINE a == [Idle EXCEPT !.op = "enable", !.g = g, !.pc = "poll"]
<1>1. /\ RegisterOK(gpe) /\ QueueOK(work, worker, host) /\ MasksOK(gpe, api, worker, host)
      /\ api.pc = "idle" /\ gpe \in GpeRegister /\ Counted(gpe) /\ scanning \in SUBSET Gpe
  BY DEF GpeIInv, RegisterOK, uacpi_enable_gpe, Call
<1>2. gpe' = gpe_add_user(gpe, g, TRUE) /\ api' \in {a, Idle} /\ UNCHANGED <<work, worker, host, scanning>>
  BY DEF uacpi_enable_gpe
<1>3. Keeps(gpe, gpe')
  BY <1>1, <1>2, AddUserKeeps
<1>4. a \in GpeCalls /\ a.pc = "poll" /\ a.g = g
  BY GpeAssumption DEF Idle, GpeCalls, HandlerType, Triggering
<1> HIDE DEF a
<1>5. CallOK(api') /\ api'.pc \notin {"masking", "modify", "asleep"}
  BY <1>2, <1>4, IdleOK DEF CallOK
<1>6. MasksOK(gpe, api', worker, host)
  BY <1>1, <1>5, NextMasks
<1>7. MasksOK(gpe', api', worker, host)
  BY <1>1, <1>3, <1>5, <1>6, KeepsMasks
<1>8. RegisterOK(gpe')
  BY <1>3 DEF Keeps, RegisterOK
<1> QED
  BY <1>1, <1>2, <1>5, <1>7, <1>8 DEF GpeIInv

LEMMA MatchStep ==
    ASSUME GpeIInv, NEW g \in Gpe, NEW trig \in Triggering, do_match_gpe_methods(g, trig)
    PROVE  GpeIInv'
<1> DEFINE e == [gpe.ev[g] EXCEPT !.type = "AML_HANDLER", !.devices = {}, !.triggering = trig]
           s == [gpe EXCEPT !.ev[g].type = "AML_HANDLER", !.ev[g].devices = {},
                            !.ev[g].triggering = trig]
<1>1. gpe \in GpeRegister /\ Counted(gpe) /\ Call /\ Register(s)
  BY DEF GpeIInv, RegisterOK, do_match_gpe_methods
<1>2. gpe.ev[g] \in GpEvent
  BY <1>1 DEF GpeRegister
<1>3. e \in GpEvent /\ e.users = gpe.ev[g].users
  BY <1>2 DEF GpEvent, HandlerType
<1>4. s = ChangeEvent(gpe, g, e)
  BY <1>1, <1>2 DEF ChangeEvent, GpeRegister, GpEvent
<1> HIDE DEF e, s
<1>5. Calm(gpe, ChangeEvent(gpe, g, e))
  BY <1>1, <1>3, ChangeIsCalm
<1>6. Keeps(gpe, s)
  BY <1>1, <1>4, <1>5, CalmKeeps
<1> QED
  BY <1>1, <1>6, RegisterStep

LEMMA UserStep == ASSUME GpeIInv, NEW g \in Gpe, UserCall(g) PROVE GpeIInv'
<1>1. CASE uacpi_enable_gpe(g)
  BY <1>1, EnableStep
<1>2. CASE uacpi_disable_gpe(g)
  <2>1. gpe \in GpeRegister /\ Counted(gpe)
    BY DEF GpeIInv, RegisterOK
  <2>2. Keeps(gpe, gpe_remove_user(gpe, g))
    BY <2>1, RemoveUserKeeps
  <2> QED
    BY <1>2, <2>2, RegisterStep DEF uacpi_disable_gpe
<1>3. CASE \E t \in Triggering : do_match_gpe_methods(g, t)
  BY <1>3, MatchStep
<1> QED
  BY <1>1, <1>2, <1>3 DEF UserCall

\* What uacpi_suspend_gpe and uacpi_resume_gpe do to an event is calm if drivers
\* resume only what is enabled.
LEMMA SuspendStep ==
    ASSUME Disciplined, GpeIInv, NEW g \in Gpe, uacpi_suspend_gpe(g) \/ uacpi_resume_gpe(g)
    PROVE  GpeIInv'
<1> DEFINE bt == [gpe EXCEPT !.ev[g].block = TRUE]
           bf == [gpe EXCEPT !.ev[g].block = FALSE]
           off == set_gpe_state(bt, g, "DISABLED")
           on == set_gpe_state(bf, g, "ENABLED")
<1>1. gpe \in GpeRegister /\ Counted(gpe) /\ Call
  BY DEF GpeIInv, RegisterOK, uacpi_suspend_gpe, uacpi_resume_gpe
<1>2. Calm(gpe, bt) /\ Calm(gpe, bf)
  BY <1>1, BlockIsCalm
<1>3. Register(off) \/ (Register(on) /\ g \in gpe.current)
  BY DEF uacpi_suspend_gpe, uacpi_resume_gpe
<1> HIDE DEF bt, bf
<1>4. bt \in GpeRegister /\ bf \in GpeRegister
  BY <1>2 DEF Calm
<1>5. Calm(bt, off)
  BY <1>4, DisableIsCalm
<1>6. Keeps(gpe, off)
  BY <1>1, <1>2, <1>5, CalmTransitive, CalmKeeps
<1>7. ASSUME g \in gpe.current PROVE Keeps(gpe, on)
  <2>1. g \in bf.current
    BY <1>2, <1>7 DEF Calm, SameMasks
  <2>2. /\ on \in GpeRegister /\ SameMasks(bf, on) /\ on.ev = bf.ev
        /\ on.enable \subseteq bf.enable \cup ({g} \ bf.masked)
    BY <1>4, SetState
  <2> HIDE DEF on
  <2>3. Calm(bf, on)
    BY <2>1, <2>2 DEF Calm, SameUsers
  <2> QED
    BY <1>1, <1>2, <2>3, CalmTransitive, CalmKeeps
<1> QED
  BY <1>1, <1>3, <1>6, <1>7, RegisterStep

LEMMA ForWakeStep ==
    ASSUME GpeIInv, NEW g \in Gpe, NEW enabled \in BOOLEAN, gpe_enable_disable_for_wake(g, enabled)
    PROVE  GpeIInv'
<1> DEFINE W == IF enabled THEN gpe.wakes \cup {g} ELSE gpe.wakes \cap {g}
           s == [gpe EXCEPT !.wakes = W]
<1>1. gpe \in GpeRegister /\ Counted(gpe) /\ Call /\ Register(s)
  BY DEF GpeIInv, RegisterOK, gpe_enable_disable_for_wake
<1>2. W \in SUBSET Gpe
  BY <1>1 DEF GpeRegister
<1> HIDE DEF W
<1>3. Calm(gpe, s)
  BY <1>1, <1>2 DEF Calm, SameMasks, SameUsers, GpeRegister
<1> HIDE DEF s
<1>4. Keeps(gpe, s)
  BY <1>1, <1>3, CalmKeeps
<1> QED
  BY <1>1, <1>4, RegisterStep

LEMMA DriverStep == ASSUME Disciplined, GpeIInv, NEW g \in Gpe, DriverCall(g) PROVE GpeIInv'
<1>1. gpe \in GpeRegister /\ Counted(gpe)
  BY DEF GpeIInv, RegisterOK
<1>2. "NONE" \in HandlerType /\ "LEVEL" \in Triggering /\ {} \in SUBSET Device
  BY DEF HandlerType, Triggering
<1>3. ASSUME NEW type \in {"NATIVE_HANDLER", "NATIVE_HANDLER_RAW"}, NEW t \in Triggering,
             do_install_gpe_handler(g, type, t)
      PROVE  GpeIInv'
  BY <1>2, <1>3, BeginStep DEF do_install_gpe_handler, HandlerType
<1>4. CASE uacpi_uninstall_gpe_handler(g)
  BY <1>2, <1>4, BeginStep DEF uacpi_uninstall_gpe_handler
<1>5. ASSUME NEW d \in {{}} \cup {{x} : x \in Device}, uacpi_setup_gpe_for_wake(g, d)
      PROVE  GpeIInv'
  <2>1. d \in SUBSET Device
    OBVIOUS
  <2> QED
    BY <1>2, <1>5, <2>1, BeginStep DEF uacpi_setup_gpe_for_wake
<1>6. CASE uacpi_mask_gpe(g)
  BY <1>2, <1>6, BeginStep DEF uacpi_mask_gpe
<1>7. CASE uacpi_unmask_gpe(g)
  <2>1. Call /\ Register(gpe_unmask(gpe, g))
    BY <1>7 DEF uacpi_unmask_gpe, Register
  <2> QED
    BY <1>1, <2>1, UnmaskKeeps, RegisterStep
<1>8. CASE uacpi_clear_gpe(g)
  <2>1. Keeps(gpe, clear_gpe(gpe, g))
    BY <1>1, ClearIsCalm, CalmKeeps
  <2> QED
    BY <1>8, <2>1, RegisterStep DEF uacpi_clear_gpe
<1>9. CASE uacpi_suspend_gpe(g) \/ uacpi_resume_gpe(g)
  BY <1>9, SuspendStep
<1>10. CASE uacpi_finish_handling_gpe(g)
  <2>1. Keeps(gpe, restore_gpe(gpe, g))
    BY <1>1, RestoreIsCalm, CalmKeeps
  <2> QED
    BY <1>10, <2>1, RegisterStep DEF uacpi_finish_handling_gpe
<1>11. CASE \E b \in BOOLEAN : gpe_enable_disable_for_wake(g, b)
  BY <1>11, ForWakeStep
<1> QED
  BY <1>3, <1>4, <1>5, <1>6, <1>7, <1>8, <1>9, <1>10, <1>11 DEF DriverCall

LEMMA GpeInitOK == GpeInit => GpeIInv
<1> SUFFICES ASSUME GpeInit PROVE GpeIInv
  OBVIOUS
<1> DEFINE e == [users |-> 0, type |-> "NONE", triggering |-> "LEVEL", wake |-> FALSE,
                 block |-> FALSE, devices |-> {}, previous |-> NoPrevious]
<1>1. e \in GpEvent /\ e.users = 0
  BY GpeAssumption DEF GpEvent, NoPrevious, HandlerType, Triggering
<1> HIDE DEF e
<1>2. gpe = [ev |-> [g \in Gpe |-> e], runtime |-> {}, wakes |-> {}, masked |-> {},
             current |-> {}, enable |-> {}, status |-> {}, finalized |-> FALSE]
  BY DEF GpeInit, e
<1>3. RegisterOK(gpe)
  BY <1>1, <1>2 DEF RegisterOK, GpeRegister, Counted
<1>4. /\ work = <<>> /\ worker = IdleWorker /\ api = Idle /\ scanning = {}
      /\ host \in {"queues", "refuses"}
  BY DEF GpeInit
<1>5. QueueOK(work, worker, host)
  BY <1>4 DEF QueueOK, IdleWorker
<1>6. MasksOK(gpe, api, worker, host)
  BY <1>2, <1>4, IdleOK DEF MasksOK, IdleWorker
<1> QED
  BY <1>3, <1>4, <1>5, <1>6, IdleOK DEF GpeIInv

LEMMA GpeStep == Disciplined /\ GpeIInv /\ [GpeNext]_gpeVars => GpeIInv'
<1> SUFFICES ASSUME Disciplined, GpeIInv, [GpeNext]_gpeVars PROVE GpeIInv'
  OBVIOUS
<1>1. CASE handle_gpes
  BY <1>1, DetectedIsSome, DispatchStep DEF handle_gpes
<1>2. CASE detect_gpes
  BY <1>2, DispatchStep DEF detect_gpes, GpeIInv
<1>3. CASE Worker
  BY <1>3, WorkerStep
<1>4. CASE ApiRest
  BY <1>4, ApiStep
<1>5. CASE uacpi_finalize_gpe_initialization
  BY <1>5, FinalizeStep
<1>6. CASE SleepGpes
  BY <1>6, SleepGpesStep
<1>7. CASE WakeGpes
  BY <1>7, WakeGpesStep
<1>8. CASE \E g \in Gpe : RaiseGpe(g) \/ UserCall(g)
  BY <1>8, RaiseStep, UserStep
<1>9. CASE \E g \in DriverGpe : DriverCall(g)
  BY <1>9, GpeAssumption, DriverStep
<1>10. CASE UNCHANGED gpeVars
  BY <1>10 DEF GpeIInv, gpeVars
<1> QED
  BY <1>1, <1>2, <1>3, <1>4, <1>5, <1>6, <1>7, <1>8, <1>9, <1>10 DEF GpeNext

LEMMA GpeIInvSound == GpeIInv => GpesAreSound
<1> SUFFICES ASSUME GpeIInv PROVE GpesAreSound
  OBVIOUS
<1>1. GpeTypeOK
  BY DEF GpeIInv, RegisterOK, GpeRegister, QueueOK, WorkItems, CallOK, GpeCalls, GpeTypeOK
<1>2. MaskedIsSilent
  BY DEF GpeIInv, MasksOK, MaskedIsSilent
<1>3. SwapIsQuietHere
  BY DEF GpeIInv, MasksOK, SwapIsQuietHere, SwapIsQuiet
<1>4. RuntimeIsCounted
  BY DEF GpeIInv, RegisterOK, Counted, RuntimeIsCounted
<1> QED
  BY <1>1, <1>2, <1>3, <1>4 DEF GpesAreSound

\* For any events, drivers and counts of users, with a host that queues work or one
\* that does not: the masks of event.c do what its calls promise, whatever the
\* interrupt and the worker do in between, if drivers are disciplined.
THEOREM GpesStaySound ==
    ASSUME Disciplined
    PROVE  GpeInit /\ [][GpeNext]_gpeVars => []GpesAreSound
<1>1. GpeIInv /\ [GpeNext]_gpeVars => GpeIInv'
  BY GpeStep
<1> QED
  BY <1>1, GpeInitOK, GpeIInvSound, PTL

(***************************************************************************)
(* The registers.                                                          *)
(***************************************************************************)
AllBits == UNION {g_registers[r].bits : r \in RegName}

Hw == [RegName -> [0 .. 1 -> SUBSET AllBits]]

LEMMA RegisterTable ==
    /\ RegName = {"PM1_STS", "PM1_EN", "PM1_CNT", "SLP_CNT", "SLP_STS", "SMI_CMD"}
    /\ \A r \in RegName : /\ g_registers[r].preserve \subseteq AllBits
                          /\ g_registers[r].write_only \subseteq AllBits
                          /\ g_registers[r].bits \subseteq AllBits
    /\ g_registers["PM1_EN"].access = "PRESERVE" /\ g_registers["PM1_EN"].preserve = {}
    /\ g_registers["PM1_EN"].write_only = {} /\ g_registers["PM1_EN"].kind = "GAS"
    /\ g_registers["PM1_EN"].two = TRUE
    /\ g_registers["PM1_STS"].access = "WRITE_TO_CLEAR" /\ g_registers["PM1_STS"].preserve = {"IGN0"}
    /\ g_registers["PM1_STS"].kind = "GAS" /\ g_registers["SLP_STS"].kind = "GAS"
    /\ g_registers["PM1_CNT"].access = "PRESERVE" /\ g_registers["PM1_CNT"].kind = "GAS"
    /\ g_registers["PM1_CNT"].write_only = {"SLP_EN", "GBL_RLS"}
    /\ EventName \subseteq AllBits /\ SlpTyp \subseteq AllBits /\ EventBits.sts \subseteq AllBits
    /\ {"WAK", "SCI_EN", "SLP_EN", "RSVD", "acpi_enable", "acpi_disable"} \subseteq AllBits
<1>1. RegName = {"PM1_STS", "PM1_EN", "PM1_CNT", "SLP_CNT", "SLP_STS", "SMI_CMD"}
  BY DEF RegName, g_registers
<1>2. /\ g_registers["PM1_EN"].access = "PRESERVE" /\ g_registers["PM1_EN"].preserve = {}
      /\ g_registers["PM1_EN"].write_only = {} /\ g_registers["PM1_EN"].kind = "GAS"
      /\ g_registers["PM1_EN"].two = TRUE
      /\ g_registers["PM1_EN"].bits = EventName
  BY DEF g_registers, EventBits
<1>3. /\ g_registers["PM1_STS"].access = "WRITE_TO_CLEAR" /\ g_registers["PM1_STS"].preserve = {"IGN0"}
      /\ g_registers["PM1_STS"].kind = "GAS" /\ g_registers["PM1_STS"].write_only = {}
      /\ g_registers["PM1_STS"].bits = EventBits.sts
  BY DEF g_registers
<1>4. /\ g_registers["PM1_CNT"].access = "PRESERVE" /\ g_registers["PM1_CNT"].kind = "GAS"
      /\ g_registers["PM1_CNT"].write_only = {"SLP_EN", "GBL_RLS"}
      /\ g_registers["PM1_CNT"].preserve = {"RSVD"}
      /\ g_registers["PM1_CNT"].bits = SlpTyp \cup {"SCI_EN", "SLP_EN", "GBL_RLS", "RSVD"}
  BY DEF g_registers
<1>5. /\ g_registers["SLP_CNT"].write_only = {"SLP_EN"} /\ g_registers["SLP_CNT"].preserve = {"RSVD"}
      /\ g_registers["SLP_STS"].write_only = {} /\ g_registers["SLP_STS"].preserve = {"RSVD"}
      /\ g_registers["SLP_STS"].kind = "GAS"
      /\ g_registers["SMI_CMD"].write_only = {} /\ g_registers["SMI_CMD"].preserve = {}
      /\ g_registers["SMI_CMD"].bits = {"acpi_enable", "acpi_disable"}
  BY DEF g_registers
<1>6. \A r \in RegName : g_registers[r].bits \subseteq AllBits
  BY DEF AllBits
<1>7. EventBits.sts = EventName \cup {"WAK", "IGN0"}
  BY DEF EventBits
<1>8. /\ EventBits.sts \subseteq AllBits /\ EventName \subseteq AllBits /\ SlpTyp \subseteq AllBits
      /\ {"SCI_EN", "SLP_EN", "GBL_RLS", "RSVD"} \subseteq AllBits
      /\ {"acpi_enable", "acpi_disable"} \subseteq AllBits
  BY <1>1, <1>2, <1>3, <1>4, <1>5, <1>6
<1>9. "WAK" \in AllBits /\ "IGN0" \in AllBits
  BY <1>7, <1>8
<1>10. \A r \in RegName : g_registers[r].preserve \subseteq AllBits
                          /\ g_registers[r].write_only \subseteq AllBits
  BY <1>1, <1>2, <1>3, <1>4, <1>5, <1>8, <1>9
<1> QED
  BY <1>1, <1>2, <1>3, <1>4, <1>5, <1>6, <1>8, <1>9, <1>10

LEMMA ReadType ==
    ASSUME NEW h \in Hw, NEW m, NEW r \in RegName
    PROVE  do_read_register(h, m, r) \in SUBSET AllBits
  BY DEF Hw, do_read_register, Mapped

\* From h to k only register r is written, and each mapped part of it with w[j].
OnlyRegister(h, k, r) == k \in Hw /\ \A q \in RegName : q # r => k[q] = h[q]

PartsWritten(h, k, m, r, w) ==
    \A j \in 0 .. 1 : k[r][j] = IF j \in Mapped(m, r) THEN PartWrite(r, h[r][j], w) ELSE h[r][j]

\* A write of one part leaves every other part and register alone.
LEMMA WriteOne ==
    ASSUME NEW h \in Hw, NEW m, NEW r \in RegName, NEW i \in 0 .. 1, NEW v \in SUBSET AllBits
    PROVE  LET k == do_write_one(h, m, r, i, v)
           IN  /\ k \in Hw /\ \A q \in RegName : q # r => k[q] = h[q]
               /\ \A j \in 0 .. 1 :
                    k[r][j] = IF j = i /\ j \in Mapped(m, r) THEN PartWrite(r, h[r][j], v) ELSE h[r][j]
<1> DEFINE p == PartWrite(r, h[r][i], v)
           k == do_write_one(h, m, r, i, v)
<1>1. p \in SUBSET AllBits
  BY DEF PartWrite, Hw
<1>2. CASE i \in Mapped(m, r)
  <2>1. k = [h EXCEPT ![r] = [h[r] EXCEPT ![i] = p]]
    BY <1>2 DEF do_write_one, Hw
  <2> HIDE DEF p, k
  <2>2. [h[r] EXCEPT ![i] = p] \in [0 .. 1 -> SUBSET AllBits]
    BY <1>1 DEF Hw
  <2>3. k \in Hw
    BY <2>1, <2>2 DEF Hw
  <2>4. k[r] = [h[r] EXCEPT ![i] = p] /\ \A q \in RegName : q # r => k[q] = h[q]
    BY <2>1 DEF Hw
  <2>5. h[r] \in [0 .. 1 -> SUBSET AllBits]
    BY DEF Hw
  <2>6. \A j \in 0 .. 1 : k[r][j] = IF j = i THEN p ELSE h[r][j]
    BY <2>4, <2>5
  <2> QED
    BY <1>2, <2>3, <2>4, <2>6 DEF p, k
<1>3. CASE i \notin Mapped(m, r)
  <2>1. k = h
    BY <1>3 DEF do_write_one
  <2> QED
    BY <1>3, <2>1
<1> QED
  BY <1>2, <1>3

\* Both parts written.
LEMMA WriteBoth ==
    ASSUME NEW h \in Hw, NEW m, NEW r \in RegName, NEW v0 \in SUBSET AllBits, NEW v1 \in SUBSET AllBits
    PROVE  LET k == uacpi_write_registers(h, m, r, v0, v1)
           IN  /\ k \in Hw /\ \A q \in RegName : q # r => k[q] = h[q]
               /\ \A j \in 0 .. 1 :
                    k[r][j] = IF j \in Mapped(m, r)
                              THEN PartWrite(r, h[r][j], IF j = 0 THEN v0 ELSE v1) ELSE h[r][j]
<1> DEFINE a == do_write_one(h, m, r, 0, v0)
           k == do_write_one(a, m, r, 1, v1)
<1>1. /\ a \in Hw /\ \A q \in RegName : q # r => a[q] = h[q]
      /\ \A j \in 0 .. 1 :
           a[r][j] = IF j = 0 /\ j \in Mapped(m, r) THEN PartWrite(r, h[r][j], v0) ELSE h[r][j]
  BY WriteOne
<1> HIDE DEF a
<1>2. /\ k \in Hw /\ \A q \in RegName : q # r => k[q] = a[q]
      /\ \A j \in 0 .. 1 :
           k[r][j] = IF j = 1 /\ j \in Mapped(m, r) THEN PartWrite(r, a[r][j], v1) ELSE a[r][j]
  BY <1>1, WriteOne
<1>3. uacpi_write_registers(h, m, r, v0, v1) = k
  BY DEF uacpi_write_registers, a
<1> HIDE DEF k
<1>4. 0 .. 1 = {0, 1}
  OBVIOUS
<1>5. \A j \in 0 .. 1 :
        k[r][j] = IF j \in Mapped(m, r)
                  THEN PartWrite(r, h[r][j], IF j = 0 THEN v0 ELSE v1) ELSE h[r][j]
  BY <1>1, <1>2, <1>4
<1> QED
  BY <1>1, <1>2, <1>3, <1>5

\* What do_write_register makes of a value.
Sent(h, m, r, v) ==
    (v \ g_registers[r].preserve)
    \cup (IF g_registers[r].access = "PRESERVE"
          THEN do_read_register(h, m, r) \cap g_registers[r].preserve ELSE {})

LEMMA WriteRegister ==
    ASSUME NEW h \in Hw, NEW m, NEW r \in RegName, NEW v \in SUBSET AllBits
    PROVE  LET k == do_write_register(h, m, r, v)
           IN  OnlyRegister(h, k, r) /\ PartsWritten(h, k, m, r, Sent(h, m, r, v))
<1> DEFINE w == Sent(h, m, r, v)
           k == uacpi_write_registers(h, m, r, w, w)
<1>1. w \in SUBSET AllBits
  BY ReadType DEF Sent
<1>2. do_write_register(h, m, r, v) = k
  BY DEF do_write_register, uacpi_write_registers, Sent
<1> HIDE DEF w
<1>3. /\ k \in Hw /\ \A q \in RegName : q # r => k[q] = h[q]
      /\ \A j \in 0 .. 1 :
           k[r][j] = IF j \in Mapped(m, r)
                     THEN PartWrite(r, h[r][j], IF j = 0 THEN w ELSE w) ELSE h[r][j]
  BY <1>1, WriteBoth
<1> HIDE DEF k
<1>4. OnlyRegister(h, k, r) /\ PartsWritten(h, k, m, r, w)
  BY <1>3 DEF OnlyRegister, PartsWritten
<1> QED
  BY <1>2, <1>4 DEF w

\* A field changed in what was read of its register.
FieldValue(h, m, r, B, v) == (do_read_register(h, m, r) \ B) \cup v

LEMMA WriteField ==
    ASSUME NEW h \in Hw, NEW m, NEW r \in RegName, g_registers[r].kind = "GAS",
           NEW B \in SUBSET AllBits, NEW v \in SUBSET AllBits
    PROVE  LET k == uacpi_write_register_field(h, m, Field(r, B), v)
           IN  /\ OnlyRegister(h, k, r)
               /\ PartsWritten(h, k, m, r, Sent(h, m, r, FieldValue(h, m, r, B, v)))
<1> DEFINE u == FieldValue(h, m, r, B, v)
<1>1. u \in SUBSET AllBits
  BY ReadType DEF FieldValue
<1>2. uacpi_write_register_field(h, m, Field(r, B), v) = do_write_register(h, m, r, u)
  BY DEF uacpi_write_register_field, Field, FieldValue
<1> HIDE DEF u
<1> QED
  BY <1>1, <1>2, WriteRegister DEF u

(***************************************************************************)
(* Fixed events.  A part without an address is never mapped, and no bit of *)
(* it is set, so that a write reaches every part that can interrupt.       *)
(***************************************************************************)
PartState(r, i) == IF Present(r, i) THEN "MAPPED" ELSE "NOT_NEEDED"

MappingOK(m) ==
    /\ m \in [RegName -> [0 .. 1 -> {"NONE", "NOT_NEEDED", "MAPPED"}]]
    /\ \A r \in RegName, i \in 0 .. 1 : m[r][i] \in {"NONE", PartState(r, i)}

EnableOK(h, on) ==
    /\ h \in Hw
    /\ \A i \in 0 .. 1 : ~Present("PM1_EN", i) => h["PM1_EN"][i] = {}
    /\ on => \A i \in 0 .. 1 : h["PM1_EN"][i] \cap LoopEvents \subseteq handlers

FixedIInv ==
    /\ MappingOK(mapping) /\ EnableOK(hw, early)
    /\ early \in BOOLEAN /\ handlers \in SUBSET EventName
    /\ sci \in [at : 0 .. 4, status : SUBSET AllBits, enable : SUBSET AllBits]

LEMMA UseOK ==
    ASSUME MappingOK(mapping), NEW regs, UseRegisters(regs)
    PROVE  /\ MappingOK(mapping')
           /\ \A r \in RegName : Mapped(mapping, r) \subseteq Mapped(mapping', r)
           /\ \A r \in RegName : r \in regs => Mapped(mapping', r) = {i \in 0 .. 1 : Present(r, i)}
<1> DEFINE st(r, i) == IF r \in regs /\ mapping[r][i] = "NONE" THEN PartState(r, i) ELSE mapping[r][i]
           States == {"NONE", "NOT_NEEDED", "MAPPED"}
<1>1. \A r \in RegName : mapping[r] \in [0 .. 1 -> States]
  BY DEF MappingOK
<1>2. \A r \in RegName : mapping'[r] = [i \in 0 .. 1 |-> st(r, i)]
  <2> SUFFICES ASSUME NEW r \in RegName PROVE mapping'[r] = [i \in 0 .. 1 |-> st(r, i)]
    OBVIOUS
  <2>1. CASE r \in regs
    <3>1. mapping'[r] = [i \in 0 .. 1 |-> IF mapping[r][i] # "NONE" THEN mapping[r][i]
                                          ELSE IF Present(r, i) THEN "MAPPED" ELSE "NOT_NEEDED"]
      BY <2>1 DEF UseRegisters, ensure_register_mapped, MappingOK
    <3> QED
      BY <2>1, <3>1 DEF PartState
  <2>2. CASE r \notin regs
    <3>1. mapping'[r] = mapping[r]
      BY <2>2 DEF UseRegisters
    <3> QED
      BY <1>1, <2>2, <3>1
  <2> QED
    BY <2>1, <2>2
<1>3. \A r \in RegName, i \in 0 .. 1 : st(r, i) \in {"NONE", PartState(r, i)} /\ st(r, i) \in States
  BY DEF MappingOK, PartState
<1>4. \A r \in RegName, i \in 0 .. 1 : mapping[r][i] = "MAPPED" => st(r, i) = "MAPPED"
  OBVIOUS
<1>5. \A r \in RegName, i \in 0 .. 1 :
        r \in regs => (st(r, i) = "MAPPED" <=> Present(r, i))
  BY DEF MappingOK, PartState
<1> HIDE DEF st
<1>6. \A r \in RegName, i \in 0 .. 1 : mapping'[r][i] = st(r, i)
  BY <1>2
<1>7. mapping' = [r \in RegName |-> mapping'[r]]
  BY DEF UseRegisters
<1>8. mapping' \in [RegName -> [0 .. 1 -> States]]
  BY <1>2, <1>3, <1>7
<1> QED
  BY <1>3, <1>4, <1>5, <1>6, <1>8 DEF MappingOK, Mapped

LEMMA SettleOK ==
    ASSUME NEW h \in Hw
    PROVE  /\ Settle(h) \in Hw /\ \A q \in RegName : q # "PM1_EN" => Settle(h)[q] = h[q]
           /\ \A j \in 0 .. 1 : Settle(h)["PM1_EN"][j] = h["PM1_EN"][j] \cap Implemented
<1>1. "PM1_EN" \in RegName
  BY RegisterTable
<1> DEFINE p == [i \in 0 .. 1 |-> h["PM1_EN"][i] \cap Implemented]
<1>2. p \in [0 .. 1 -> SUBSET AllBits]
  BY <1>1 DEF Hw
<1>3. Settle(h) = [h EXCEPT !["PM1_EN"] = p]
  BY <1>1 DEF Settle, Hw
<1>4. \A j \in 0 .. 1 : p[j] = h["PM1_EN"][j] \cap Implemented
  OBVIOUS
<1> HIDE DEF p
<1>5. Settle(h) \in Hw /\ Settle(h)["PM1_EN"] = p /\ \A q \in RegName : q # "PM1_EN" => Settle(h)[q] = h[q]
  BY <1>1, <1>2, <1>3 DEF Hw
<1> QED
  BY <1>4, <1>5

\* The enable bits after set_event on mapped registers.
EnableValue(e, on) == IF on THEN {e} ELSE {}

EnabledBits(h, m, e, on) == FieldValue(h, m, "PM1_EN", {e}, EnableValue(e, on))

EventSet(h, m, e, on) ==
    Settle(uacpi_write_register_field(h, m, EnableField(e), EnableValue(e, on)))

EnableParts(h, k, m, w) ==
    \A j \in 0 .. 1 :
        k["PM1_EN"][j] = (IF j \in Mapped(m, "PM1_EN") THEN w ELSE h["PM1_EN"][j]) \cap Implemented

LEMMA SetEvent ==
    ASSUME NEW h \in Hw, NEW m, NEW e \in EventName, NEW on \in BOOLEAN
    PROVE  /\ OnlyRegister(h, EventSet(h, m, e, on), "PM1_EN")
           /\ EnableParts(h, EventSet(h, m, e, on), m, EnabledBits(h, m, e, on))
<1> DEFINE v == EnableValue(e, on)
           B == {e}
           r == "PM1_EN"
           a == uacpi_write_register_field(h, m, Field(r, B), v)
           u == FieldValue(h, m, r, B, v)
<1>1. v \in SUBSET AllBits /\ B \in SUBSET AllBits
  BY RegisterTable DEF EnableValue
<1>2. r \in RegName /\ g_registers[r].kind = "GAS"
  BY RegisterTable
<1>3. EnabledBits(h, m, e, on) = u
  BY DEF EnabledBits
<1>4. Sent(h, m, r, u) = u
  BY RegisterTable DEF Sent
<1>5. \A x, y : PartWrite(r, x, y) = y
  BY RegisterTable DEF PartWrite
<1>6. EventSet(h, m, e, on) = Settle(a)
  BY DEF EventSet, EnableField
<1> HIDE DEF v, B, r
<1>7. OnlyRegister(h, a, r) /\ PartsWritten(h, a, m, r, Sent(h, m, r, u))
  BY <1>1, <1>2, WriteField
<1> HIDE DEF a, u
<1>8. a \in Hw /\ \A q \in RegName : q # r => a[q] = h[q]
  BY <1>7 DEF OnlyRegister
<1>9. \A j \in 0 .. 1 : a[r][j] = IF j \in Mapped(m, r) THEN u ELSE h[r][j]
  BY <1>4, <1>5, <1>7 DEF PartsWritten
<1>10. /\ Settle(a) \in Hw /\ \A q \in RegName : q # r => Settle(a)[q] = a[q]
       /\ \A j \in 0 .. 1 : Settle(a)[r][j] = a[r][j] \cap Implemented
  BY <1>8, SettleOK DEF r
<1>11. OnlyRegister(h, Settle(a), r)
  BY <1>8, <1>10 DEF OnlyRegister
<1>12. EnableParts(h, Settle(a), m, u)
  BY <1>9, <1>10 DEF EnableParts, r
<1> QED
  BY <1>3, <1>6, <1>11, <1>12 DEF r

LEMMA EventWritten ==
    ASSUME MappingOK(mapping), EnableOK(hw, TRUE), NEW e \in EventName, NEW on \in BOOLEAN,
           set_event(e, on)
    PROVE  /\ hw' \in Hw /\ MappingOK(mapping')
           /\ Mapped(mapping', "PM1_EN") = {i \in 0 .. 1 : Present("PM1_EN", i)}
           /\ \A i \in 0 .. 1 : ~Present("PM1_EN", i) => hw'["PM1_EN"][i] = {}
           /\ \A i \in 0 .. 1 :
                hw'["PM1_EN"][i] \cap LoopEvents \subseteq (handlers \ {e}) \cup EnableValue(e, on)
<1>1. /\ MappingOK(mapping')
      /\ Mapped(mapping', "PM1_EN") = {i \in 0 .. 1 : Present("PM1_EN", i)}
  BY UseOK, RegisterTable DEF set_event
<1>2. hw \in Hw /\ \A i \in 0 .. 1 : ~Present("PM1_EN", i) => hw["PM1_EN"][i] = {}
  BY DEF EnableOK
<1>3. hw' \in Hw /\ EnableParts(hw, hw', mapping', EnabledBits(hw, mapping', e, on))
  <2>1. hw' = EventSet(hw, mapping', e, on)
    BY DEF set_event, Written, EventSet, EnableValue
  <2> QED
    BY <1>2, <2>1, SetEvent DEF OnlyRegister
<1>4. do_read_register(hw, mapping', "PM1_EN") \cap LoopEvents \subseteq handlers
  BY DEF do_read_register, EnableOK, Mapped
<1>5. EnabledBits(hw, mapping', e, on) \cap LoopEvents \subseteq (handlers \ {e}) \cup EnableValue(e, on)
  BY <1>4 DEF EnabledBits, FieldValue
<1>6. \A i \in 0 .. 1 : ~Present("PM1_EN", i) => hw'["PM1_EN"][i] = {}
  BY <1>1, <1>2, <1>3 DEF EnableParts
<1>7. \A i \in 0 .. 1 :
        hw'["PM1_EN"][i] \cap LoopEvents \subseteq (handlers \ {e}) \cup EnableValue(e, on)
  BY <1>1, <1>3, <1>5, <1>6 DEF EnableParts
<1> QED
  BY <1>1, <1>3, <1>6, <1>7

LEMMA InstallFixedStep ==
    ASSUME FixedIInv, NEW e \in EventName, uacpi_install_fixed_event_handler(e)
    PROVE  FixedIInv'
<1>1. /\ MappingOK(mapping) /\ EnableOK(hw, TRUE) /\ early /\ set_event(e, TRUE)
      /\ handlers' = (IF Stuck(e, TRUE) THEN handlers \cup {e} ELSE handlers)
      /\ UNCHANGED <<sci, early>>
  BY DEF FixedIInv, EnableOK, uacpi_install_fixed_event_handler
<1>2. /\ hw' \in Hw /\ MappingOK(mapping')
      /\ Mapped(mapping', "PM1_EN") = {i \in 0 .. 1 : Present("PM1_EN", i)}
      /\ \A i \in 0 .. 1 : ~Present("PM1_EN", i) => hw'["PM1_EN"][i] = {}
      /\ \A i \in 0 .. 1 : hw'["PM1_EN"][i] \cap LoopEvents \subseteq handlers \cup {e}
  BY <1>1, EventWritten DEF EnableValue
<1>3. ASSUME ~Stuck(e, TRUE) PROVE \A i \in 0 .. 1 : e \notin hw'["PM1_EN"][i]
  <2>1. uacpi_read_register_field(hw', mapping', EnableField(e)) = {}
    BY <1>1, <1>3 DEF Stuck, set_event
  <2>2. e \notin do_read_register(hw', mapping', "PM1_EN")
    BY <2>1 DEF uacpi_read_register_field, EnableField, Field
  <2>3. \A i \in Mapped(mapping', "PM1_EN") : e \notin hw'["PM1_EN"][i]
    BY <2>2, RegisterTable DEF do_read_register
  <2> QED
    BY <1>2, <2>3
<1>4. handlers' \in SUBSET EventName /\ \A i \in 0 .. 1 : hw'["PM1_EN"][i] \cap LoopEvents \subseteq handlers'
  BY <1>1, <1>2, <1>3 DEF FixedIInv
<1>5. EnableOK(hw, early)'
  BY <1>2, <1>4 DEF EnableOK
<1> QED
  BY <1>1, <1>2, <1>4, <1>5 DEF FixedIInv

LEMMA WriteFixedStep ==
    ASSUME FixedIInv, NEW e \in EventName,
           \/ uacpi_uninstall_fixed_event_handler(e)
           \/ uacpi_enable_fixed_event(e)
           \/ uacpi_disable_fixed_event(e)
    PROVE  FixedIInv'
<1>1. MappingOK(mapping) /\ early /\ UNCHANGED <<sci, early>>
  BY DEF FixedIInv, uacpi_uninstall_fixed_event_handler, uacpi_enable_fixed_event,
         uacpi_disable_fixed_event
<1>2. EnableOK(hw, TRUE)
  BY <1>1 DEF FixedIInv, EnableOK
<1>3. \/ set_event(e, FALSE) /\ handlers' \in {handlers, handlers \ {e}}
      \/ set_event(e, TRUE) /\ handlers' = handlers /\ e \in handlers
  BY DEF uacpi_uninstall_fixed_event_handler, uacpi_enable_fixed_event,
         uacpi_disable_fixed_event
<1>4. /\ hw' \in Hw /\ MappingOK(mapping')
      /\ \A i \in 0 .. 1 : ~Present("PM1_EN", i) => hw'["PM1_EN"][i] = {}
      /\ \A i \in 0 .. 1 : hw'["PM1_EN"][i] \cap LoopEvents \subseteq handlers'
  <2>1. CASE set_event(e, FALSE) /\ handlers' \in {handlers, handlers \ {e}}
    <3>1. /\ hw' \in Hw /\ MappingOK(mapping')
          /\ \A i \in 0 .. 1 : ~Present("PM1_EN", i) => hw'["PM1_EN"][i] = {}
          /\ \A i \in 0 .. 1 :
               hw'["PM1_EN"][i] \cap LoopEvents \subseteq (handlers \ {e}) \cup EnableValue(e, FALSE)
      BY <1>1, <1>2, <2>1, EventWritten
    <3> QED
      BY <2>1, <3>1 DEF EnableValue
  <2>2. CASE set_event(e, TRUE) /\ handlers' = handlers /\ e \in handlers
    <3>1. /\ hw' \in Hw /\ MappingOK(mapping')
          /\ \A i \in 0 .. 1 : ~Present("PM1_EN", i) => hw'["PM1_EN"][i] = {}
          /\ \A i \in 0 .. 1 :
               hw'["PM1_EN"][i] \cap LoopEvents \subseteq (handlers \ {e}) \cup EnableValue(e, TRUE)
      BY <1>1, <1>2, <2>2, EventWritten
    <3> QED
      BY <2>2, <3>1 DEF EnableValue
  <2> QED
    BY <1>3, <2>1, <2>2
<1>5. EnableOK(hw, early)' /\ handlers' \in SUBSET EventName
  BY <1>3, <1>4 DEF EnableOK, FixedIInv
<1> QED
  BY <1>1, <1>4, <1>5 DEF FixedIInv

\* The status register cleared, and nothing else.
LEMMA StatusCleared ==
    ASSUME hw \in Hw, NEW e \in EventName
    PROVE  OnlyRegister(hw, ClearStatus(e), "PM1_STS")
<1> DEFINE B == {e}
           r == "PM1_STS"
<1>1. B \in SUBSET AllBits
  BY RegisterTable
<1>2. r \in RegName /\ g_registers[r].kind = "GAS"
  BY RegisterTable
<1>3. ClearStatus(e) = uacpi_write_register_field(hw, mapping', Field(r, B), B)
  BY DEF ClearStatus, StatusField
<1> HIDE DEF B, r
<1>4. OnlyRegister(hw, uacpi_write_register_field(hw, mapping', Field(r, B), B), r)
  BY <1>1, <1>2, WriteField
<1> QED
  BY <1>3, <1>4 DEF r

LEMMA EarlyStep == ASSUME FixedIInv, uacpi_initialize_events_early PROVE FixedIInv'
<1> DEFINE p == [i \in 0 .. 1 |-> DisableEvents(hw["PM1_EN"][i])]
           a == [hw EXCEPT !["PM1_EN"] = p]
<1>1. /\ MappingOK(mapping') /\ hw' = Settle(a) /\ early' = TRUE /\ UNCHANGED <<handlers, sci>>
  BY UseOK DEF FixedIInv, uacpi_initialize_events_early, initialize_fixed_events
<1>2. hw \in Hw /\ "PM1_EN" \in RegName /\ \A i \in 0 .. 1 : ~Present("PM1_EN", i) => hw["PM1_EN"][i] = {}
  BY RegisterTable DEF FixedIInv, EnableOK
<1>3. /\ p \in [0 .. 1 -> SUBSET AllBits] /\ \A i \in 0 .. 1 : p[i] \cap LoopEvents = {}
      /\ \A i \in 0 .. 1 : p[i] \subseteq hw["PM1_EN"][i]
  BY <1>2 DEF DisableEvents, Hw
<1> HIDE DEF p
<1>4. a \in Hw /\ a["PM1_EN"] = p
  BY <1>2, <1>3 DEF Hw
<1> HIDE DEF a
<1>5. hw' \in Hw /\ \A i \in 0 .. 1 : hw'["PM1_EN"][i] = p[i] \cap Implemented
  BY <1>1, <1>4, SettleOK
<1>6. EnableOK(hw, early)'
  BY <1>2, <1>3, <1>5 DEF EnableOK
<1> QED
  BY <1>1, <1>6 DEF FixedIInv

\* Other registers may be written.
LEMMA EnableElsewhere ==
    ASSUME NEW on, NEW h, NEW k, NEW r, EnableOK(h, on), OnlyRegister(h, k, r), r # "PM1_EN"
    PROVE  EnableOK(k, on)
<1>1. k["PM1_EN"] = h["PM1_EN"] /\ k \in Hw
  BY RegisterTable DEF OnlyRegister
<1> QED
  BY <1>1 DEF EnableOK

LEMMA EventDisabled ==
    ASSUME NEW on, NEW h, EnableOK(h, on), NEW m, NEW e \in EventName,
           Mapped(m, "PM1_EN") = {i \in 0 .. 1 : Present("PM1_EN", i)}
    PROVE  EnableOK(EventSet(h, m, e, FALSE), on)
<1> DEFINE k == EventSet(h, m, e, FALSE)
           w == EnabledBits(h, m, e, FALSE)
<1>1. h \in Hw
  BY DEF EnableOK
<1>2. k \in Hw /\ EnableParts(h, k, m, w)
  BY <1>1, SetEvent DEF OnlyRegister
<1> HIDE DEF k
<1>3. w \subseteq do_read_register(h, m, "PM1_EN")
  BY DEF EnabledBits, FieldValue, EnableValue
<1>4. on => w \cap LoopEvents \subseteq handlers
  BY <1>3 DEF do_read_register, EnableOK, Mapped
<1> HIDE DEF w
<1>5. \A i \in 0 .. 1 : ~Present("PM1_EN", i) => k["PM1_EN"][i] = {}
  BY <1>2 DEF EnableParts, EnableOK
<1>6. on => \A i \in 0 .. 1 : k["PM1_EN"][i] \cap LoopEvents \subseteq handlers
  BY <1>2, <1>4 DEF EnableParts, EnableOK
<1>7. EnableOK(k, on)
  BY <1>2, <1>5, <1>6 DEF EnableOK
<1> QED
  BY <1>7 DEF k

LEMMA ClearFixedStep ==
    ASSUME FixedIInv, NEW e \in EventName, uacpi_clear_fixed_event(e) PROVE FixedIInv'
<1>1. hw' = ClearStatus(e) /\ UNCHANGED <<handlers, sci, early>> /\ EnableOK(hw, early) /\ hw \in Hw
  BY DEF uacpi_clear_fixed_event, FixedIInv, EnableOK
<1>2. MappingOK(mapping')
  BY UseOK DEF uacpi_clear_fixed_event, FixedIInv
<1>3. OnlyRegister(hw, hw', "PM1_STS")
  BY <1>1, StatusCleared
<1>4. EnableOK(hw', early)
  BY <1>1, <1>3, EnableElsewhere
<1>5. EnableOK(hw, early)'
  BY <1>1, <1>4 DEF EnableOK
<1> QED
  BY <1>1, <1>2, <1>5 DEF FixedIInv

LEMMA HandleStep == ASSUME FixedIInv, handle_fixed_events PROVE FixedIInv'
<1> DEFINE sts == do_read_register(hw, mapping', "PM1_STS")
           en == do_read_register(hw, mapping', "PM1_EN")
<1>1. sci' = [at |-> 1, status |-> sts, enable |-> en] /\ UNCHANGED <<hw, handlers, early>> /\ hw \in Hw
  BY DEF handle_fixed_events, FixedIInv, EnableOK
<1>2. MappingOK(mapping')
  BY UseOK DEF handle_fixed_events, FixedIInv
<1>3. sts \in SUBSET AllBits /\ en \in SUBSET AllBits
  BY <1>1, ReadType, RegisterTable
<1> HIDE DEF sts, en
<1>4. sci' \in [at : 0 .. 4, status : SUBSET AllBits, enable : SUBSET AllBits]
  BY <1>1, <1>3
<1>5. EnableOK(hw, early)'
  BY <1>1 DEF EnableOK, FixedIInv
<1> QED
  BY <1>1, <1>2, <1>4, <1>5 DEF FixedIInv

LEMMA FixedNames ==
    /\ \A i \in 1 .. 4 : fixed_events[i] \in EventName
    /\ Names = EventName
<1>1. /\ fixed_events[1] = "GBL" /\ fixed_events[2] = "TMR" /\ fixed_events[3] = "PWRBTN"
      /\ fixed_events[4] = "SLPBTN" /\ fixed_events[5] = "RTC" /\ Len(fixed_events) = 5
  BY DEF fixed_events
<1>2. 1 .. 5 = {1, 2, 3, 4, 5} /\ 1 .. 4 = {1, 2, 3, 4}
  OBVIOUS
<1>3. Names = {fixed_events[i] : i \in {1, 2, 3, 4, 5}}
  BY <1>1, <1>2 DEF Names
<1> QED
  BY <1>1, <1>2, <1>3 DEF EventName

LEMMA DispatchFixedStep == ASSUME FixedIInv, dispatch_fixed_event PROVE FixedIInv'
<1> DEFINE e == fixed_events[sci.at]
           S == [at : 0 .. 4, status : SUBSET AllBits, enable : SUBSET AllBits]
<1>1. /\ sci \in S /\ hw \in Hw /\ EnableOK(hw, early) /\ sci.at # 0 /\ UNCHANGED <<handlers, early>>
  BY DEF FixedIInv, EnableOK, dispatch_fixed_event
<1>2. MappingOK(mapping') /\ Mapped(mapping', "PM1_EN") = {i \in 0 .. 1 : Present("PM1_EN", i)}
  BY UseOK, RegisterTable DEF dispatch_fixed_event, FixedIInv, PM1
<1>3. sci.at \in 1 .. 4 /\ e \in EventName
  BY <1>1, FixedNames
<1>4. sci' \in S
  <2>1. CASE sci.at = 4
    BY <2>1 DEF dispatch_fixed_event, UACPI_FIXED_EVENT_MAX, NoSci
  <2>2. CASE sci.at # 4
    <3>1. sci' = [sci EXCEPT !.at = sci.at + 1]
      BY <2>2 DEF dispatch_fixed_event, UACPI_FIXED_EVENT_MAX
    <3>2. sci.at + 1 \in 0 .. 4
      BY <1>3, <2>2
    <3> QED
      BY <1>1, <3>1, <3>2
  <2> QED
    BY <2>1, <2>2
<1>5. hw' \in {hw, ClearStatus(e), EventSet(ClearStatus(e), mapping', e, FALSE)}
  BY DEF dispatch_fixed_event, EventSet, EnableValue
<1> HIDE DEF e
<1>6. EnableOK(ClearStatus(e), early)
  BY <1>1, <1>3, StatusCleared, EnableElsewhere
<1>7. EnableOK(EventSet(ClearStatus(e), mapping', e, FALSE), early)
  BY <1>2, <1>3, <1>6, EventDisabled
<1>8. EnableOK(hw', early)
  BY <1>1, <1>5, <1>6, <1>7
<1>9. EnableOK(hw, early)'
  BY <1>1, <1>8 DEF EnableOK
<1> QED
  BY <1>1, <1>2, <1>4, <1>9 DEF FixedIInv

\* The chipset changes the first part of a register.
LEMMA PartChanged ==
    ASSUME NEW h \in Hw, NEW r \in RegName, NEW v \in SUBSET AllBits
    PROVE  /\ OnlyRegister(h, [h EXCEPT ![r][0] = v], r)
           /\ [h EXCEPT ![r][0] = v][r][0] = v /\ [h EXCEPT ![r][0] = v][r][1] = h[r][1]
<1> DEFINE p == [h[r] EXCEPT ![0] = v]
           k == [h EXCEPT ![r][0] = v]
<1>1. h[r] \in [0 .. 1 -> SUBSET AllBits]
  BY DEF Hw
<1>2. p \in [0 .. 1 -> SUBSET AllBits] /\ p[0] = v /\ p[1] = h[r][1]
  BY <1>1
<1>3. k = [h EXCEPT ![r] = p]
  BY DEF Hw
<1> HIDE DEF p, k
<1>4. k \in Hw /\ k[r] = p /\ \A q \in RegName : q # r => k[q] = h[q]
  BY <1>2, <1>3 DEF Hw
<1> QED
  BY <1>2, <1>4 DEF OnlyRegister, k

LEMMA RaiseFixedStep == ASSUME FixedIInv, NEW e \in EventName, RaiseFixed(e) PROVE FixedIInv'
<1> DEFINE r == "PM1_STS"
           v == hw[r][0] \cup {e}
<1>1. hw \in Hw /\ EnableOK(hw, early) /\ UNCHANGED <<mapping, handlers, sci, early>>
  BY DEF RaiseFixed, FixedIInv, EnableOK
<1>2. r \in RegName /\ v \in SUBSET AllBits
  BY <1>1, RegisterTable DEF Hw
<1>3. hw' = [hw EXCEPT ![r][0] = v]
  BY DEF RaiseFixed
<1> HIDE DEF v, r
<1>4. OnlyRegister(hw, hw', r)
  BY <1>1, <1>2, <1>3, PartChanged
<1>5. r # "PM1_EN"
  BY DEF r
<1>6. EnableOK(hw', early)
  BY <1>1, <1>4, <1>5, EnableElsewhere
<1>7. EnableOK(hw, early)'
  BY <1>1, <1>6 DEF EnableOK
<1> QED
  BY <1>1, <1>7 DEF FixedIInv

LEMMA FixedInitOK == FixedInit => FixedIInv
<1> SUFFICES ASSUME FixedInit PROVE FixedIInv
  OBVIOUS
<1>1. handlers = {} /\ sci = NoSci /\ early = FALSE /\ mapping = Unmapped
  BY DEF FixedInit, RegistersInit
<1>2. MappingOK(mapping)
  BY <1>1 DEF MappingOK, Unmapped
<1>3. PICK en \in SUBSET EventName :
        hw = [r \in RegName |->
                [i \in 0 .. 1 |-> IF r = "PM1_EN" /\ Present(r, i) THEN en
                                  ELSE IF r = "PM1_CNT" /\ Present(r, i)
                                  THEN {"typ0", "RSVD"} ELSE {}]]
  BY DEF FixedInit, RegistersInit
<1>4. en \in SUBSET AllBits /\ {"typ0", "RSVD"} \in SUBSET AllBits
  BY RegisterTable DEF SlpTyp
<1>5. hw \in Hw
  BY <1>3, <1>4 DEF Hw
<1>6. \A i \in 0 .. 1 : ~Present("PM1_EN", i) => hw["PM1_EN"][i] = {}
  BY <1>3, RegisterTable
<1>7. EnableOK(hw, early)
  BY <1>1, <1>5, <1>6 DEF EnableOK
<1>8. sci \in [at : 0 .. 4, status : SUBSET AllBits, enable : SUBSET AllBits]
  BY <1>1 DEF NoSci
<1> QED
  BY <1>1, <1>2, <1>7, <1>8 DEF FixedIInv

LEMMA FixedStep == FixedIInv /\ [FixedNext]_fixedVars => FixedIInv'
<1> SUFFICES ASSUME FixedIInv, [FixedNext]_fixedVars PROVE FixedIInv'
  OBVIOUS
<1>1. CASE uacpi_initialize_events_early
  BY <1>1, EarlyStep
<1>2. CASE handle_fixed_events
  BY <1>2, HandleStep
<1>3. CASE dispatch_fixed_event
  BY <1>3, DispatchFixedStep
<1>4. ASSUME NEW e \in Raised, RaiseFixed(e) \/ FixedCall(e) PROVE FixedIInv'
  <2>1. e \in EventName
    BY FixedAssumption
  <2> QED
    BY <1>4, <2>1, RaiseFixedStep, InstallFixedStep, WriteFixedStep, ClearFixedStep DEF FixedCall
<1>5. CASE UNCHANGED fixedVars
  BY <1>5 DEF FixedIInv, fixedVars, EnableOK
<1> QED
  BY <1>1, <1>2, <1>3, <1>4, <1>5 DEF FixedNext

\* For any chipset: a fixed event that is enabled in either part of PM1_EN has a
\* handler, whatever the firmware had enabled, although installing can fail, both
\* parts get the same value and the SCI writes the register in between.
THEOREM FixedEventsHandled == FixedInit /\ [][FixedNext]_fixedVars => []EnabledIsHandled
<1>1. FixedIInv => EnabledIsHandled
  BY DEF FixedIInv, EnableOK, EnabledIsHandled
<1> QED
  BY <1>1, FixedInitOK, FixedStep, PTL

(***************************************************************************)
(* Sleeping.  The types are what both parts of the control register hold   *)
(* from the first of the two writes on; the preserved bit is part of every *)
(* value that is written back.                                             *)
(***************************************************************************)
\* Both parts get the same type: either both are known or none is.
TypPair == {<<t, t>> : t \in SlpTyp \cup {Invalid}}

SleepRecord ==
    [pc : {"awake", "typed", "slept", "woken", "waking", "mode"},
     state : SleepState \cup {"none"}, last : TypPair, s0 : TypPair, reduced : BOOLEAN,
     smi : {"none", "ACPI", "LEGACY"}, legacy : BOOLEAN]

HasRsvd(h) == h \in Hw /\ "RSVD" \in h["PM1_CNT"][0]

TypesIn(h, m, last) ==
    \A i \in 0 .. 1 : i \in Mapped(m, "PM1_CNT") => h["PM1_CNT"][i] \cap SlpTyp = {last[i + 1]}

Down(pc) == pc \in {"typed", "slept", "woken", "waking"}

SleepingOK(h, m, s) ==
    /\ Down(s.pc) /\ ~s.reduced =>
         /\ 0 \in Mapped(m, "PM1_STS")
         /\ Mapped(m, "PM1_CNT") = {i \in 0 .. 1 : Present("PM1_CNT", i)}
    /\ s.pc \in {"typed", "slept"} /\ ~s.reduced => TypesIn(h, m, s.last)

GpesDown(s, g) == s.pc \in {"typed", "slept"} /\ ~s.reduced => g.enable = g.wakes

SleepIInv ==
    /\ FixedIInv /\ GpeIInv /\ slp \in SleepRecord /\ HasRsvd(hw)
    /\ Down(slp.pc) => early
    /\ SleepingOK(hw, mapping, slp) /\ GpesDown(slp, gpe)

LEMMA CntWritten ==
    ASSUME NEW h \in Hw, NEW m, NEW v0 \in SUBSET AllBits, NEW v1 \in SUBSET AllBits
    PROVE  LET k == uacpi_write_registers(h, m, "PM1_CNT", v0, v1)
           IN  /\ OnlyRegister(h, k, "PM1_CNT")
               /\ 0 \in Mapped(m, "PM1_CNT") => k["PM1_CNT"][0] = v0
               /\ 1 \in Mapped(m, "PM1_CNT") => k["PM1_CNT"][1] = v1
               /\ 0 \notin Mapped(m, "PM1_CNT") => k["PM1_CNT"][0] = h["PM1_CNT"][0]
<1> DEFINE r == "PM1_CNT"
           k == uacpi_write_registers(h, m, r, v0, v1)
<1>1. r \in RegName /\ \A x, y : PartWrite(r, x, y) = y
  BY RegisterTable DEF PartWrite
<1> HIDE DEF r
<1>2. /\ k \in Hw /\ \A q \in RegName : q # r => k[q] = h[q]
      /\ \A j \in 0 .. 1 :
           k[r][j] = IF j \in Mapped(m, r)
                     THEN PartWrite(r, h[r][j], IF j = 0 THEN v0 ELSE v1) ELSE h[r][j]
  BY <1>1, WriteBoth
<1> HIDE DEF k
<1>3. OnlyRegister(h, k, r)
  BY <1>2 DEF OnlyRegister
<1>4. /\ 0 \in Mapped(m, r) => k[r][0] = v0
      /\ 1 \in Mapped(m, r) => k[r][1] = v1
      /\ 0 \notin Mapped(m, r) => k[r][0] = h[r][0]
  BY <1>1, <1>2
<1> QED
  BY <1>3, <1>4 DEF k, r

\* The rest of the control register: no type, the preserved bit.
LEMMA CntRest ==
    ASSUME NEW h, HasRsvd(h), NEW m
    PROVE  /\ Cnt(h, m) \in SUBSET AllBits /\ Cnt(h, m) \cap SlpTyp = {}
           /\ 0 \in Mapped(m, "PM1_CNT") => "RSVD" \in Cnt(h, m)
<1> DEFINE R == do_read_register(h, m, "PM1_CNT")
<1>1. R \in SUBSET AllBits
  <2> DEFINE r == "PM1_CNT"
  <2>1. h \in Hw /\ r \in RegName
    BY RegisterTable DEF HasRsvd
  <2> HIDE DEF r
  <2>2. do_read_register(h, m, r) \in SUBSET AllBits
    BY <2>1, ReadType
  <2> QED
    BY <2>2 DEF r
<1>2. 0 \in Mapped(m, "PM1_CNT") => "RSVD" \in R
  <2> DEFINE U == UNION {h["PM1_CNT"][i] : i \in Mapped(m, "PM1_CNT")}
  <2>1. R = U \ g_registers["PM1_CNT"].write_only
    BY Zenon DEF do_read_register
  <2>3. g_registers["PM1_CNT"].write_only = {"SLP_EN", "GBL_RLS"}
    BY RegisterTable
  <2>2. 0 \in Mapped(m, "PM1_CNT") => "RSVD" \in U
    BY DEF HasRsvd
  <2> HIDE DEF U, R
  <2> QED
    BY <2>1, <2>2, <2>3
<1> HIDE DEF R
<1>3. Cnt(h, m) = R \ (SlpTyp \cup {"SLP_EN"})
  BY DEF Cnt, R
<1> QED
  BY <1>1, <1>2, <1>3 DEF SlpTyp

\* A type in each part.
LEMMA TypesWritten ==
    ASSUME NEW h, HasRsvd(h), NEW m, NEW a \in SlpTyp \cup {Invalid}, NEW b \in SlpTyp \cup {Invalid},
           a # Invalid, b # Invalid
    PROVE  LET k == uacpi_write_registers(h, m, "PM1_CNT", Cnt(h, m) \cup {a}, Cnt(h, m) \cup {b})
           IN  OnlyRegister(h, k, "PM1_CNT") /\ HasRsvd(k) /\ TypesIn(k, m, <<a, b>>)
<1> DEFINE v0 == Cnt(h, m) \cup {a}
           v1 == Cnt(h, m) \cup {b}
           k == uacpi_write_registers(h, m, "PM1_CNT", v0, v1)
<1>1. /\ Cnt(h, m) \in SUBSET AllBits /\ Cnt(h, m) \cap SlpTyp = {}
      /\ 0 \in Mapped(m, "PM1_CNT") => "RSVD" \in Cnt(h, m)
  BY CntRest
<1>2. a \in SlpTyp /\ b \in SlpTyp /\ SlpTyp \subseteq AllBits /\ h \in Hw
  BY RegisterTable DEF HasRsvd
<1>3. v0 \in SUBSET AllBits /\ v1 \in SUBSET AllBits
  BY <1>1, <1>2
<1>4. v0 \cap SlpTyp = {a} /\ v1 \cap SlpTyp = {b} /\ (0 \in Mapped(m, "PM1_CNT") => "RSVD" \in v0)
  BY <1>1, <1>2
<1> HIDE DEF v0, v1
<1>5. /\ OnlyRegister(h, k, "PM1_CNT")
      /\ 0 \in Mapped(m, "PM1_CNT") => k["PM1_CNT"][0] = v0
      /\ 1 \in Mapped(m, "PM1_CNT") => k["PM1_CNT"][1] = v1
      /\ 0 \notin Mapped(m, "PM1_CNT") => k["PM1_CNT"][0] = h["PM1_CNT"][0]
  BY <1>2, <1>3, CntWritten
<1> HIDE DEF k
<1>6. HasRsvd(k)
  BY <1>4, <1>5 DEF HasRsvd, OnlyRegister
<1>7. /\ 0 \in Mapped(m, "PM1_CNT") => k["PM1_CNT"][0] \cap SlpTyp = {a}
      /\ 1 \in Mapped(m, "PM1_CNT") => k["PM1_CNT"][1] \cap SlpTyp = {b}
  BY <1>4, <1>5
<1>8. \A i \in 0 .. 1 : i = 0 \/ i = 1
  OBVIOUS
<1>9. <<a, b>>[0 + 1] = a /\ <<a, b>>[1 + 1] = b
  OBVIOUS
<1>10. TypesIn(k, m, <<a, b>>)
  BY <1>7, <1>8, <1>9 DEF TypesIn
<1> QED
  BY <1>5, <1>6, <1>10 DEF k, v0, v1

LEMMA RsvdElsewhere ==
    ASSUME NEW h, NEW k, NEW r, HasRsvd(h), OnlyRegister(h, k, r), r # "PM1_CNT"
    PROVE  HasRsvd(k) /\ k["PM1_CNT"] = h["PM1_CNT"]
  BY RegisterTable DEF HasRsvd, OnlyRegister

\* WAK_STS is cleared by writing one, in every part.
LEMMA WakCleared ==
    ASSUME NEW h \in Hw, NEW m
    PROVE  LET k == uacpi_write_register_field(h, m, WakSts, WakSts.bits)
           IN  OnlyRegister(h, k, "PM1_STS") /\ (0 \in Mapped(m, "PM1_STS") => "WAK" \notin k["PM1_STS"][0])
<1> DEFINE r == "PM1_STS"
           B == {"WAK"}
           k == uacpi_write_register_field(h, m, Field(r, B), B)
           w == Sent(h, m, r, FieldValue(h, m, r, B, B))
<1>1. r \in RegName /\ g_registers[r].kind = "GAS" /\ B \in SUBSET AllBits
  BY RegisterTable
<1>2. "WAK" \in w
  BY RegisterTable DEF Sent, FieldValue
<1>3. \A x, y : PartWrite(r, x, y) = x \ y
  BY RegisterTable DEF PartWrite
<1>4. uacpi_write_register_field(h, m, WakSts, WakSts.bits) = k
  BY DEF WakSts, Field
<1> HIDE DEF r, B
<1>5. OnlyRegister(h, k, r) /\ PartsWritten(h, k, m, r, w)
  BY <1>1, WriteField
<1> HIDE DEF k, w
<1>6. 0 \in Mapped(m, r) => k[r][0] = h[r][0] \ w
  BY <1>3, <1>5 DEF PartsWritten
<1> QED
  BY <1>2, <1>4, <1>5, <1>6 DEF r

LEMMA HwrWakCleared ==
    ASSUME NEW h \in Hw, NEW m
    PROVE  OnlyRegister(h, uacpi_write_register_field(h, m, HwrWakSts, HwrWakSts.bits), "SLP_STS")
<1> DEFINE r == "SLP_STS"
           B == {"WAK"}
           k == uacpi_write_register_field(h, m, Field(r, B), B)
<1>1. r \in RegName /\ g_registers[r].kind = "GAS" /\ B \in SUBSET AllBits
  BY RegisterTable
<1>2. uacpi_write_register_field(h, m, HwrWakSts, HwrWakSts.bits) = k
  BY DEF HwrWakSts, Field
<1> HIDE DEF r, B
<1>3. OnlyRegister(h, k, r)
  BY <1>1, WriteField
<1> QED
  BY <1>2, <1>3 DEF r

LEMMA PairOfTypes ==
    ASSUME NEW p \in TypPair
    PROVE  p = <<p[1], p[2]>> /\ p[1] = p[2] /\ p[1] \in SlpTyp \cup {Invalid}
  BY DEF TypPair

\* The registers change, and neither the handlers nor the SCI.
LEMMA HwStep ==
    ASSUME FixedIInv, MappingOK(mapping'), EnableOK(hw', early), KeepEvents
    PROVE  FixedIInv'
<1>1. EnableOK(hw, early)'
  BY DEF EnableOK, KeepEvents
<1> QED
  BY <1>1 DEF FixedIInv, KeepEvents

LEMMA KeptGpes == ASSUME GpeIInv, KeepGpes PROVE GpeIInv'
  BY DEF KeepGpes, gpeVars, GpeIInv

LEMMA KeptEvents == ASSUME FixedIInv, KeepHw, KeepEvents PROVE FixedIInv'
  BY DEF KeepHw, KeepEvents, FixedIInv, EnableOK

\* Nothing but the record changes, and its owner is awake or no longer asleep.
LEMMA RecordStep ==
    ASSUME SleepIInv, KeepHw, KeepEvents, KeepGpes, slp' \in SleepRecord,
           \/ ~Down(slp'.pc)
           \/ /\ Down(slp.pc) /\ slp'.pc \in {"woken", "waking"}
              /\ slp'.reduced = slp.reduced
    PROVE  SleepIInv'
<1>1. FixedIInv' /\ GpeIInv'
  BY KeptEvents, KeptGpes DEF SleepIInv
<1>2. UNCHANGED <<hw, mapping, gpe, early>>
  BY DEF KeepHw, KeepEvents, KeepGpes, gpeVars
<1>3. slp'.pc \notin {"typed", "slept"}
  BY DEF Down
<1>4. SleepingOK(hw, mapping, slp') /\ GpesDown(slp', gpe) /\ (Down(slp'.pc) => early)
  BY <1>3 DEF SleepIInv, SleepingOK, GpesDown
<1> QED
  BY <1>1, <1>2, <1>4 DEF SleepIInv, HasRsvd, SleepingOK, GpesDown

LEMMA PrepareStep ==
    ASSUME SleepIInv, NEW s \in SleepState, NEW p \in Package, NEW p0 \in Package, NEW pts \in BOOLEAN,
           uacpi_prepare_for_sleep_state(s, p, p0, pts)
    PROVE  SleepIInv'
<1> DEFINE last == get_slp_type_for_state(s, p, slp.last)
           s0 == IF p = "missing" THEN slp.s0 ELSE get_slp_type_for_state("S0", p0, slp.s0)
           st == IF p # "missing" /\ pts THEN s ELSE "none"
<1>1. slp \in SleepRecord /\ slp.pc = "awake"
  BY DEF SleepIInv, uacpi_prepare_for_sleep_state, SleepCall
<1>2. slp.last \in TypPair /\ slp.s0 \in TypPair
  BY <1>1 DEF SleepRecord
<1>3. <<Invalid, Invalid>> \in TypPair /\ \A x : <<TypOf(x), TypOf(x)>> \in TypPair
  BY DEF TypPair, TypOf, SlpTyp
<1>4. last \in TypPair /\ s0 \in TypPair
  BY <1>2, <1>3 DEF get_slp_type_for_state
<1>5. st \in SleepState \cup {"none"}
  OBVIOUS
<1>6. slp' = [slp EXCEPT !.last = last, !.s0 = s0, !.state = st] /\ KeepHw /\ KeepEvents /\ KeepGpes
  BY DEF uacpi_prepare_for_sleep_state
<1> HIDE DEF last, s0, st
<1>7. slp' \in SleepRecord /\ slp'.pc = "awake"
  BY <1>1, <1>4, <1>5, <1>6 DEF SleepRecord
<1>8. ~Down(slp'.pc)
  BY <1>7 DEF Down
<1> QED
  BY <1>6, <1>7, <1>8, RecordStep

LEMMA ReturnsStep == ASSUME SleepIInv, SleepReturns PROVE SleepIInv'
<1>1. slp \in SleepRecord /\ slp.pc = "slept" /\ slp' = [slp EXCEPT !.pc = "woken"]
      /\ KeepHw /\ KeepEvents /\ KeepGpes
  BY DEF SleepIInv, SleepReturns
<1>2. slp' \in SleepRecord /\ slp'.pc = "woken" /\ slp'.reduced = slp.reduced
  BY <1>1 DEF SleepRecord
<1>3. Down(slp.pc)
  BY <1>1 DEF Down
<1> QED
  BY <1>1, <1>2, <1>3, RecordStep

LEMMA ModeReturnsStep == ASSUME SleepIInv, ModeReturns PROVE SleepIInv'
<1> DEFINE l == slp.legacy \/ (slp.smi = "ACPI" /\ read_mode = "ACPI")
<1>1. slp \in SleepRecord /\ slp' = [slp EXCEPT !.pc = "awake", !.smi = "none", !.legacy = l]
      /\ KeepHw /\ KeepEvents /\ KeepGpes
  BY DEF SleepIInv, ModeReturns, KeepHw
<1>2. l \in BOOLEAN
  OBVIOUS
<1> HIDE DEF l
<1>3. slp' \in SleepRecord /\ slp'.pc = "awake"
  BY <1>1, <1>2 DEF SleepRecord
<1>4. ~Down(slp'.pc)
  BY <1>3 DEF Down
<1> QED
  BY <1>1, <1>3, <1>4, RecordStep

\* A register that is neither PM1_EN nor PM1_CNT is written.
Elsewhere(h, k) == k \in Hw /\ k["PM1_EN"] = h["PM1_EN"] /\ k["PM1_CNT"] = h["PM1_CNT"]

LEMMA OnlyElsewhere ==
    ASSUME NEW h, NEW k, NEW r, OnlyRegister(h, k, r), r \notin {"PM1_EN", "PM1_CNT"}
    PROVE  Elsewhere(h, k)
  BY RegisterTable DEF OnlyRegister, Elsewhere

LEMMA ElsewhereKeeps ==
    ASSUME NEW h, NEW k, NEW on, Elsewhere(h, k), HasRsvd(h), EnableOK(h, on)
    PROVE  /\ HasRsvd(k) /\ EnableOK(k, on)
           /\ \A m, last : TypesIn(h, m, last) => TypesIn(k, m, last)
  BY DEF Elsewhere, HasRsvd, EnableOK, TypesIn

LEMMA EarlySleepStep ==
    ASSUME SleepIInv, uacpi_initialize_events_early, KeepGpes, KeepSleep PROVE SleepIInv'
<1> DEFINE p == [i \in 0 .. 1 |-> DisableEvents(hw["PM1_EN"][i])]
           a == [hw EXCEPT !["PM1_EN"] = p]
<1>1. FixedIInv' /\ GpeIInv'
  BY EarlyStep, KeptGpes DEF SleepIInv
<1>2. hw \in Hw /\ "PM1_EN" \in RegName /\ "PM1_CNT" \in RegName
  BY RegisterTable DEF SleepIInv, HasRsvd
<1>3. hw' = Settle(a)
  BY DEF uacpi_initialize_events_early, initialize_fixed_events
<1>4. p \in [0 .. 1 -> SUBSET AllBits]
  BY <1>2 DEF DisableEvents, Hw
<1> HIDE DEF p
<1>5. a \in Hw /\ a["PM1_CNT"] = hw["PM1_CNT"]
  BY <1>2, <1>4 DEF Hw
<1> HIDE DEF a
<1>6. hw' \in Hw /\ hw'["PM1_CNT"] = hw["PM1_CNT"]
  BY <1>2, <1>3, <1>5, SettleOK
<1>7. ~early /\ UNCHANGED slp
  BY DEF uacpi_initialize_events_early, KeepSleep
<1>8. ~Down(slp.pc) /\ slp \in SleepRecord /\ HasRsvd(hw)
  BY <1>7 DEF SleepIInv
<1>9. slp.pc \notin {"typed", "slept"}
  BY <1>8 DEF Down
<1> QED
  BY <1>1, <1>6, <1>7, <1>8, <1>9 DEF SleepIInv, HasRsvd, SleepingOK, GpesDown

\* The chipset changes a status register, whatever the machine is doing.
LEMMA StatusStep ==
    ASSUME SleepIInv, Elsewhere(hw, hw'), UNCHANGED <<mapping, slp>>, KeepEvents, KeepGpes
    PROVE  SleepIInv'
<1>1. HasRsvd(hw') /\ EnableOK(hw', early) /\ \A m, last : TypesIn(hw, m, last) => TypesIn(hw', m, last)
  BY ElsewhereKeeps DEF SleepIInv, FixedIInv
<1>2. FixedIInv' /\ GpeIInv'
  BY <1>1, HwStep, KeptGpes DEF SleepIInv, FixedIInv
<1>3. UNCHANGED <<early, gpe>>
  BY DEF KeepEvents, KeepGpes, gpeVars
<1> QED
  BY <1>1, <1>2, <1>3 DEF SleepIInv, HasRsvd, SleepingOK, GpesDown

LEMMA RaiseSleepStep ==
    ASSUME SleepIInv, NEW e \in EventName, RaiseFixed(e), KeepGpes, KeepSleep PROVE SleepIInv'
<1> DEFINE r == "PM1_STS"
           v == hw[r][0] \cup {e}
<1>1. hw \in Hw /\ UNCHANGED <<mapping, slp>> /\ KeepEvents
  BY DEF RaiseFixed, SleepIInv, HasRsvd, KeepEvents, KeepSleep
<1>2. r \in RegName /\ v \in SUBSET AllBits /\ r \notin {"PM1_EN", "PM1_CNT"}
  BY <1>1, RegisterTable DEF Hw
<1>3. hw' = [hw EXCEPT ![r][0] = v]
  BY DEF RaiseFixed
<1> HIDE DEF v, r
<1>4. OnlyRegister(hw, hw', r)
  BY <1>1, <1>2, <1>3, PartChanged
<1>5. Elsewhere(hw, hw')
  BY <1>2, <1>4, OnlyElsewhere
<1> QED
  BY <1>1, <1>5, StatusStep

LEMMA PlatformStep == ASSUME SleepIInv, PlatformWakes PROVE SleepIInv'
<1> DEFINE r == IF slp.reduced THEN "SLP_STS" ELSE "PM1_STS"
           v == hw[r][0] \cup {"WAK"}
<1>1. hw \in Hw /\ UNCHANGED <<mapping, slp>> /\ KeepEvents /\ KeepGpes
  BY DEF PlatformWakes, SleepIInv, HasRsvd
<1>2. r \in RegName /\ r \notin {"PM1_EN", "PM1_CNT"}
  BY RegisterTable
<1>3. hw' = [hw EXCEPT ![r][0] = v]
  BY DEF PlatformWakes
<1> HIDE DEF r
<1>4. v \in SUBSET AllBits
  BY <1>1, <1>2, RegisterTable DEF Hw
<1> HIDE DEF v
<1>5. OnlyRegister(hw, hw', r)
  BY <1>1, <1>2, <1>3, <1>4, PartChanged
<1>6. Elsewhere(hw, hw')
  BY <1>2, <1>5, OnlyElsewhere
<1> QED
  BY <1>1, <1>6, StatusStep

(***************************************************************************)
(* Going to sleep.                                                         *)
(***************************************************************************)
LEMMA EnterFullStep ==
    ASSUME SleepIInv, NEW s \in SleepState, enter_sleep_state_hw_full(s) PROVE SleepIInv'
<1> DEFINE m == mapping'
           woken == uacpi_write_register_field(hw, m, WakSts, WakSts.bits)
           clear == do_write_register(woken, m, "PM1_STS", EventBits.sts)
           a == slp.last[1]
           b == slp.last[2]
           k == uacpi_write_registers(clear, m, "PM1_CNT", Cnt(clear, m) \cup {a}, Cnt(clear, m) \cup {b})
<1>1. /\ slp \in SleepRecord /\ HasRsvd(hw) /\ hw \in Hw /\ EnableOK(hw, early) /\ early
      /\ a # Invalid /\ b # Invalid
  BY DEF SleepIInv, HasRsvd, FixedIInv, enter_sleep_state_hw_full, SleepCall
<1>2. /\ hw' = k /\ SleepGpes /\ KeepEvents /\ slp' = [slp EXCEPT !.pc = "typed"]
  BY DEF enter_sleep_state_hw_full
<1>3. slp.last \in TypPair
  BY <1>1 DEF SleepRecord
<1>4. a \in SlpTyp \cup {Invalid} /\ b \in SlpTyp \cup {Invalid} /\ slp.last = <<a, b>>
  BY <1>3, PairOfTypes
<1>5. /\ MappingOK(m) /\ Mapped(m, "PM1_CNT") = {i \in 0 .. 1 : Present("PM1_CNT", i)}
      /\ Mapped(m, "PM1_STS") = {i \in 0 .. 1 : Present("PM1_STS", i)}
  BY UseOK, RegisterTable DEF enter_sleep_state_hw_full, SleepIInv, FixedIInv
<1>6. 0 \in Mapped(m, "PM1_STS")
  BY <1>5 DEF Present
<1> HIDE DEF m, a, b
<1>7. OnlyRegister(hw, woken, "PM1_STS")
  BY <1>1, WakCleared
<1>8. Elsewhere(hw, woken)
  BY <1>7, OnlyElsewhere
<1> HIDE DEF woken
<1>9. OnlyRegister(woken, clear, "PM1_STS")
  <2> DEFINE r == "PM1_STS"
             v == EventBits.sts
  <2>1. r \in RegName /\ v \in SUBSET AllBits /\ woken \in Hw
    BY <1>8, RegisterTable DEF Elsewhere
  <2> HIDE DEF r, v
  <2>2. OnlyRegister(woken, do_write_register(woken, m, r, v), r)
    BY <2>1, WriteRegister
  <2> QED
    BY <2>2 DEF r, v
<1>10. Elsewhere(woken, clear)
  BY <1>9, OnlyElsewhere
<1> HIDE DEF clear
<1>11. HasRsvd(clear) /\ EnableOK(clear, early)
  BY <1>1, <1>8, <1>10, ElsewhereKeeps
<1>12. OnlyRegister(clear, k, "PM1_CNT") /\ HasRsvd(k) /\ TypesIn(k, m, <<a, b>>)
  BY <1>1, <1>4, <1>11, TypesWritten
<1> HIDE DEF k
<1>13. EnableOK(k, early)
  BY <1>11, <1>12, EnableElsewhere
<1>14. FixedIInv'
  BY <1>2, <1>5, <1>13, HwStep DEF SleepIInv, m
<1>15. GpeIInv'
  BY <1>2, SleepGpesStep DEF SleepIInv
<1>16. slp' \in SleepRecord /\ slp'.pc = "typed" /\ slp'.last = slp.last /\ slp'.reduced = slp.reduced
  BY <1>1, <1>2 DEF SleepRecord
<1>17. gpe'.enable = gpe'.wakes
  BY <1>2, SleptRegister DEF SleepGpes, SleepIInv, GpeIInv, RegisterOK
<1>18. SleepingOK(hw', m, slp') /\ GpesDown(slp', gpe')
  BY <1>2, <1>4, <1>5, <1>6, <1>12, <1>16, <1>17 DEF SleepingOK, GpesDown
<1>19. early'
  BY <1>1, <1>2 DEF KeepEvents
<1> QED
  BY <1>2, <1>12, <1>14, <1>15, <1>16, <1>18, <1>19 DEF SleepIInv, m, HasRsvd, SleepingOK, GpesDown

LEMMA SlpEnStep == ASSUME SleepIInv, WriteSlpEn PROVE SleepIInv'
<1> DEFINE m == mapping'
           v0 == hw["PM1_CNT"][0] \cup {"SLP_EN"}
           v1 == hw["PM1_CNT"][1] \cup {"SLP_EN"}
           k == uacpi_write_registers(hw, m, "PM1_CNT", v0, v1)
<1>1. /\ slp \in SleepRecord /\ HasRsvd(hw) /\ hw \in Hw /\ EnableOK(hw, early)
      /\ slp.pc = "typed" /\ slp' = [slp EXCEPT !.pc = "slept"] /\ KeepEvents /\ KeepGpes
  BY DEF SleepIInv, HasRsvd, FixedIInv, WriteSlpEn
<1>2. hw' = k
  BY DEF WriteSlpEn
<1>3. /\ MappingOK(m) /\ Mapped(m, "PM1_CNT") = {i \in 0 .. 1 : Present("PM1_CNT", i)}
      /\ Mapped(mapping, "PM1_STS") \subseteq Mapped(m, "PM1_STS")
  BY UseOK, RegisterTable DEF WriteSlpEn, SleepIInv, FixedIInv
<1>4. v0 \in SUBSET AllBits /\ v1 \in SUBSET AllBits
  BY <1>1, RegisterTable DEF Hw
<1>5. /\ v0 \cap SlpTyp = hw["PM1_CNT"][0] \cap SlpTyp /\ v1 \cap SlpTyp = hw["PM1_CNT"][1] \cap SlpTyp
      /\ "RSVD" \in v0
  BY <1>1 DEF HasRsvd, SlpTyp
<1> HIDE DEF m, v0, v1
<1>6. /\ OnlyRegister(hw, k, "PM1_CNT")
      /\ 0 \in Mapped(m, "PM1_CNT") => k["PM1_CNT"][0] = v0
      /\ 1 \in Mapped(m, "PM1_CNT") => k["PM1_CNT"][1] = v1
      /\ 0 \notin Mapped(m, "PM1_CNT") => k["PM1_CNT"][0] = hw["PM1_CNT"][0]
  BY <1>1, <1>4, CntWritten
<1> HIDE DEF k
<1>7. HasRsvd(k)
  BY <1>1, <1>5, <1>6 DEF HasRsvd, OnlyRegister
<1>8. EnableOK(k, early)
  BY <1>1, <1>6, EnableElsewhere
<1>9. FixedIInv' /\ GpeIInv'
  BY <1>1, <1>2, <1>3, <1>8, HwStep, KeptGpes DEF SleepIInv, m
<1>10. slp' \in SleepRecord /\ slp'.pc = "slept" /\ slp'.last = slp.last /\ slp'.reduced = slp.reduced
  BY <1>1 DEF SleepRecord
<1>11. Down(slp.pc)
  BY <1>1 DEF Down
<1>12. ASSUME ~slp.reduced
       PROVE  /\ 0 \in Mapped(m, "PM1_STS") /\ Mapped(m, "PM1_CNT") = Mapped(mapping, "PM1_CNT")
              /\ TypesIn(hw, mapping, slp.last) /\ gpe.enable = gpe.wakes
  BY <1>1, <1>3, <1>11, <1>12 DEF SleepIInv, SleepingOK, GpesDown
<1>13. ASSUME ~slp.reduced PROVE TypesIn(k, m, slp.last)
  <2>1. \A i \in 0 .. 1 : i = 0 \/ i = 1
    OBVIOUS
  <2>2. \A i \in 0 .. 1 : i \in Mapped(m, "PM1_CNT") => k["PM1_CNT"][i] \cap SlpTyp = hw["PM1_CNT"][i] \cap SlpTyp
    BY <1>5, <1>6, <2>1
  <2> QED
    BY <1>12, <1>13, <2>2 DEF TypesIn
<1>14. SleepingOK(hw', m, slp') /\ GpesDown(slp', gpe)
  BY <1>2, <1>3, <1>10, <1>12, <1>13 DEF SleepingOK, GpesDown
<1>15. early' /\ UNCHANGED gpe
  BY <1>1, <1>11 DEF SleepIInv, KeepEvents, KeepGpes, gpeVars
<1> QED
  BY <1>2, <1>7, <1>9, <1>10, <1>14, <1>15 DEF SleepIInv, m, HasRsvd, SleepingOK, GpesDown

LEMMA EnterReducedStep ==
    ASSUME SleepIInv, NEW s \in SleepState, enter_sleep_state_hw_reduced(s) PROVE SleepIInv'
<1> DEFINE m == mapping'
           woken == uacpi_write_register_field(hw, m, HwrWakSts, HwrWakSts.bits)
           r == "SLP_CNT"
           v == make_hw_reduced_sleep_control(slp.last[1])
<1>1. /\ slp \in SleepRecord /\ HasRsvd(hw) /\ hw \in Hw /\ EnableOK(hw, early) /\ early
      /\ slp.last[1] # Invalid /\ slp.reduced = TRUE
      /\ slp' = [slp EXCEPT !.pc = "slept"] /\ KeepEvents /\ KeepGpes
  BY DEF SleepIInv, HasRsvd, FixedIInv, enter_sleep_state_hw_reduced, SleepCall, SleepRecord
<1>2. hw' = do_write_register(woken, m, r, v)
  BY DEF enter_sleep_state_hw_reduced
<1>3. MappingOK(m)
  BY UseOK DEF enter_sleep_state_hw_reduced, SleepIInv, FixedIInv
<1>4. slp.last \in TypPair
  BY <1>1 DEF SleepRecord
<1>5. r \in RegName /\ v \in SUBSET AllBits /\ r \notin {"PM1_EN", "PM1_CNT"}
  BY <1>1, <1>4, PairOfTypes, RegisterTable DEF make_hw_reduced_sleep_control
<1> HIDE DEF m, r, v
<1>6. OnlyRegister(hw, woken, "SLP_STS")
  BY <1>1, HwrWakCleared
<1>7. Elsewhere(hw, woken) /\ woken \in Hw
  BY <1>6, OnlyElsewhere DEF Elsewhere
<1> HIDE DEF woken
<1>8. OnlyRegister(woken, hw', r)
  BY <1>2, <1>5, <1>7, WriteRegister
<1>9. Elsewhere(woken, hw')
  BY <1>5, <1>8, OnlyElsewhere
<1>10. HasRsvd(hw') /\ EnableOK(hw', early)
  BY <1>1, <1>7, <1>9, ElsewhereKeeps
<1>11. FixedIInv' /\ GpeIInv'
  BY <1>1, <1>3, <1>10, HwStep, KeptGpes DEF SleepIInv, m
<1>12. slp' \in SleepRecord /\ slp'.reduced = TRUE
  BY <1>1 DEF SleepRecord
<1>13. early'
  BY <1>1 DEF KeepEvents
<1> QED
  BY <1>10, <1>11, <1>12, <1>13 DEF SleepIInv, HasRsvd, SleepingOK, GpesDown


(***************************************************************************)
(* Waking, and the two modes.                                              *)
(***************************************************************************)
\* PM1_CNT or SLP_CNT is written on the way up.
LEMMA UpStep ==
    ASSUME SleepIInv, slp.pc = "woken", slp' = [slp EXCEPT !.pc = "waking"],
           HasRsvd(hw'), EnableOK(hw', early), UNCHANGED mapping, KeepEvents, KeepGpes
    PROVE  SleepIInv'
<1>1. FixedIInv' /\ GpeIInv'
  BY HwStep, KeptGpes DEF SleepIInv, FixedIInv
<1>2. slp' \in SleepRecord /\ slp'.pc = "waking" /\ slp'.reduced = slp.reduced
  BY DEF SleepIInv, SleepRecord
<1>3. Down(slp.pc) /\ Down(slp'.pc)
  BY <1>2 DEF Down
<1>4. SleepingOK(hw', mapping, slp') /\ GpesDown(slp', gpe) /\ early
  BY <1>2, <1>3 DEF SleepIInv, SleepingOK, GpesDown
<1>5. UNCHANGED <<early, gpe>>
  BY DEF KeepEvents, KeepGpes, gpeVars
<1> QED
  BY <1>1, <1>2, <1>4, <1>5 DEF SleepIInv, HasRsvd, SleepingOK, GpesDown

LEMMA PrepareWakeStep == ASSUME SleepIInv, uacpi_prepare_for_wake PROVE SleepIInv'
<1> DEFINE a == slp.s0[1]
           b == slp.s0[2]
           r == "SLP_CNT"
           v == make_hw_reduced_sleep_control(a)
           red == do_write_register(hw, mapping, r, v)
           k == uacpi_write_registers(hw, mapping, "PM1_CNT", Cnt(hw, mapping) \cup {a},
                                      Cnt(hw, mapping) \cup {b})
<1>1. /\ slp \in SleepRecord /\ HasRsvd(hw) /\ hw \in Hw /\ EnableOK(hw, early)
      /\ slp.pc = "woken" /\ slp' = [slp EXCEPT !.pc = "waking"]
      /\ UNCHANGED mapping /\ KeepEvents /\ KeepGpes
  BY DEF SleepIInv, HasRsvd, FixedIInv, uacpi_prepare_for_wake
<1>2. \/ hw' = hw
      \/ a # Invalid /\ hw' = red
      \/ a # Invalid /\ hw' = k
  BY DEF uacpi_prepare_for_wake
<1>3. slp.s0 \in TypPair
  BY <1>1 DEF SleepRecord
<1>4. a \in SlpTyp \cup {Invalid} /\ b \in SlpTyp \cup {Invalid} /\ a = b
  BY <1>3, PairOfTypes
<1> HIDE DEF a, b
<1>5. ASSUME a # Invalid PROVE HasRsvd(red) /\ EnableOK(red, early)
  <2>1. r \in RegName /\ v \in SUBSET AllBits /\ r \notin {"PM1_EN", "PM1_CNT"}
    BY <1>4, <1>5, RegisterTable DEF make_hw_reduced_sleep_control
  <2> HIDE DEF r, v
  <2>2. OnlyRegister(hw, red, r)
    BY <1>1, <2>1, WriteRegister
  <2>3. Elsewhere(hw, red)
    BY <2>1, <2>2, OnlyElsewhere
  <2> QED
    BY <1>1, <2>3, ElsewhereKeeps
<1>6. ASSUME a # Invalid PROVE HasRsvd(k) /\ EnableOK(k, early)
  <2>1. OnlyRegister(hw, k, "PM1_CNT") /\ HasRsvd(k)
    BY <1>1, <1>4, <1>6, TypesWritten
  <2> HIDE DEF k
  <2> QED
    BY <1>1, <2>1, EnableElsewhere
<1> HIDE DEF red, k
<1>7. HasRsvd(hw') /\ EnableOK(hw', early)
  BY <1>1, <1>2, <1>5, <1>6
<1> QED
  BY <1>1, <1>7, UpStep

\* What uacpi_wake_from_sleep_state leaves in the registers.
LEMMA WakeWrites ==
    ASSUME SleepIInv, uacpi_wake_from_sleep_state
    PROVE  /\ Elsewhere(hw, hw')
           /\ ~slp.reduced => "WAK" \notin hw'["PM1_STS"][0]
<1>1. hw \in Hw /\ slp.pc = "waking"
  BY DEF SleepIInv, HasRsvd, uacpi_wake_from_sleep_state
<1>2. CASE slp.reduced
  <2>1. hw' = uacpi_write_register_field(hw, mapping, HwrWakSts, HwrWakSts.bits)
    BY <1>2 DEF uacpi_wake_from_sleep_state
  <2>2. OnlyRegister(hw, hw', "SLP_STS")
    BY <1>1, <2>1, HwrWakCleared
  <2> QED
    BY <1>2, <2>2, OnlyElsewhere
<1>3. CASE ~slp.reduced
  <2>1. hw' = uacpi_write_register_field(hw, mapping, WakSts, WakSts.bits)
    BY <1>3 DEF uacpi_wake_from_sleep_state
  <2>2. 0 \in Mapped(mapping, "PM1_STS")
    BY <1>1, <1>3 DEF SleepIInv, SleepingOK, Down
  <2>3. OnlyRegister(hw, hw', "PM1_STS") /\ "WAK" \notin hw'["PM1_STS"][0]
    BY <1>1, <2>1, <2>2, WakCleared
  <2>4. Elsewhere(hw, hw')
    BY <2>3, OnlyElsewhere
  <2> QED
    BY <2>3, <2>4
<1> QED
  BY <1>2, <1>3

LEMMA WakeStep == ASSUME SleepIInv, uacpi_wake_from_sleep_state PROVE SleepIInv'
<1>1. HasRsvd(hw') /\ EnableOK(hw', early)
  BY WakeWrites, ElsewhereKeeps DEF SleepIInv, FixedIInv
<1>2. FixedIInv'
  BY <1>1, HwStep DEF SleepIInv, FixedIInv, uacpi_wake_from_sleep_state
<1>3. GpeIInv'
  BY KeptGpes, WakeGpesStep DEF SleepIInv, uacpi_wake_from_sleep_state
<1>4. slp \in SleepRecord
      /\ slp' = [slp EXCEPT !.pc = "awake", !.last = <<Invalid, Invalid>>, !.state = "none"]
  BY DEF SleepIInv, uacpi_wake_from_sleep_state
<1>5. <<Invalid, Invalid>> \in TypPair
  BY DEF TypPair
<1>6. slp' \in SleepRecord /\ slp'.pc = "awake"
  BY <1>4, <1>5 DEF SleepRecord
<1> QED
  BY <1>1, <1>2, <1>3, <1>6 DEF SleepIInv, HasRsvd, SleepingOK, GpesDown, Down

LEMMA ModeStep == ASSUME SleepIInv, NEW mode, enter_mode(mode), mode \in {"ACPI", "LEGACY"} PROVE SleepIInv'
<1> DEFINE m == mapping'
           r == "SMI_CMD"
           v == {IF mode = "ACPI" THEN "acpi_enable" ELSE "acpi_disable"}
<1>1. /\ slp \in SleepRecord /\ HasRsvd(hw) /\ hw \in Hw /\ EnableOK(hw, early)
      /\ slp.pc = "awake" /\ KeepEvents /\ KeepGpes
  BY DEF SleepIInv, HasRsvd, FixedIInv, enter_mode, SleepCall
<1>2. \/ UNCHANGED <<hw, slp>>
      \/ hw' = do_write_register(hw, m, r, v) /\ slp' = [slp EXCEPT !.smi = mode, !.pc = "mode"]
  BY DEF enter_mode
<1>3. MappingOK(m)
  BY UseOK DEF enter_mode, SleepIInv, FixedIInv
<1>4. r \in RegName /\ v \in SUBSET AllBits /\ r \notin {"PM1_EN", "PM1_CNT"}
  BY RegisterTable
<1> HIDE DEF m, r, v
<1>5. OnlyRegister(hw, do_write_register(hw, m, r, v), r)
  BY <1>1, <1>4, WriteRegister
<1>6. Elsewhere(hw, do_write_register(hw, m, r, v))
  BY <1>4, <1>5, OnlyElsewhere
<1>7. HasRsvd(hw') /\ EnableOK(hw', early)
  BY <1>1, <1>2, <1>6, ElsewhereKeeps
<1>8. FixedIInv' /\ GpeIInv'
  BY <1>1, <1>3, <1>7, HwStep, KeptGpes DEF SleepIInv, m
<1>9. slp' \in SleepRecord /\ slp'.pc \in {"awake", "mode"}
  BY <1>1, <1>2 DEF SleepRecord
<1> QED
  BY <1>7, <1>8, <1>9 DEF SleepIInv, HasRsvd, SleepingOK, GpesDown, Down

LEMMA FirmwareStep == ASSUME SleepIInv, FirmwareSetsMode PROVE SleepIInv'
<1> DEFINE r == "PM1_CNT"
           v == IF slp.smi = "ACPI" THEN hw[r][0] \cup {"SCI_EN"} ELSE hw[r][0] \ {"SCI_EN"}
<1>1. /\ slp \in SleepRecord /\ HasRsvd(hw) /\ hw \in Hw /\ EnableOK(hw, early) /\ slp.pc = "mode"
      /\ UNCHANGED <<mapping, slp>> /\ KeepEvents /\ KeepGpes
  BY DEF SleepIInv, HasRsvd, FixedIInv, FirmwareSetsMode
<1>2. hw' = [hw EXCEPT ![r][0] = v]
  BY DEF FirmwareSetsMode
<1>3. r \in RegName /\ v \in SUBSET AllBits
  BY <1>1, RegisterTable DEF Hw
<1>4. "RSVD" \in v
  BY <1>1 DEF HasRsvd
<1> HIDE DEF v, r
<1>5. OnlyRegister(hw, hw', r) /\ hw'[r][0] = v
  BY <1>1, <1>2, <1>3, PartChanged
<1>6. r # "PM1_EN"
  BY DEF r
<1>7. EnableOK(hw', early)
  BY <1>1, <1>5, <1>6, EnableElsewhere
<1>8. HasRsvd(hw')
  BY <1>4, <1>5 DEF HasRsvd, OnlyRegister, r
<1>9. FixedIInv' /\ GpeIInv'
  BY <1>1, <1>7, HwStep, KeptGpes DEF SleepIInv, FixedIInv
<1> QED
  BY <1>1, <1>8, <1>9 DEF SleepIInv, HasRsvd, SleepingOK, GpesDown, Down

(***************************************************************************)
(* The theorems.                                                           *)
(***************************************************************************)
GpeCallHere(g) ==
    \/ uacpi_enable_gpe(g) \/ uacpi_disable_gpe(g) \/ do_match_gpe_methods(g, "LEVEL")
    \/ uacpi_setup_gpe_for_wake(g, {}) \/ gpe_enable_disable_for_wake(g, TRUE)
    \/ gpe_mask_unmask \/ FinishMasked

LEMMA GpeCallStep == ASSUME GpeIInv, NEW g \in Gpe, GpeCallHere(g) PROVE GpeIInv'
<1>1. "NONE" \in HandlerType /\ "LEVEL" \in Triggering /\ {} \in SUBSET Device
  BY DEF HandlerType, Triggering
<1>2. CASE uacpi_enable_gpe(g) \/ uacpi_disable_gpe(g)
  BY <1>2, UserStep DEF UserCall
<1>3. CASE do_match_gpe_methods(g, "LEVEL")
  BY <1>1, <1>3, MatchStep
<1>4. CASE uacpi_setup_gpe_for_wake(g, {})
  BY <1>1, <1>4, BeginStep DEF uacpi_setup_gpe_for_wake
<1>5. CASE gpe_enable_disable_for_wake(g, TRUE)
  BY <1>5, ForWakeStep
<1>6. CASE gpe_mask_unmask
  BY <1>6, MaskedStep
<1>7. CASE FinishMasked
  BY <1>7, FinishStep
<1> QED
  BY <1>2, <1>3, <1>4, <1>5, <1>6, <1>7 DEF GpeCallHere

LEMMA AwakeStep ==
    ASSUME SleepIInv, slp.pc = "awake", NEW g \in Gpe, GpeCallHere(g), KeepHw, KeepEvents, KeepSleep
    PROVE  SleepIInv'
<1>1. FixedIInv' /\ GpeIInv'
  BY KeptEvents, GpeCallStep DEF SleepIInv
<1>2. UNCHANGED <<hw, mapping, early, slp>>
  BY DEF KeepHw, KeepEvents, KeepSleep
<1> QED
  BY <1>1, <1>2 DEF SleepIInv, HasRsvd, SleepingOK, GpesDown, Down

LEMMA SleepInitOK == SleepInit => SleepIInv
<1> SUFFICES ASSUME SleepInit PROVE SleepIInv
  OBVIOUS
<1>1. FixedIInv /\ GpeIInv
  BY FixedInitOK, GpeInitOK DEF SleepInit
<1>2. PICK red \in BOOLEAN :
        slp = [pc |-> "awake", state |-> "none", last |-> <<Invalid, Invalid>>,
               s0 |-> <<Invalid, Invalid>>, reduced |-> red, smi |-> "none", legacy |-> FALSE]
  BY DEF SleepInit
<1>3. <<Invalid, Invalid>> \in TypPair
  BY DEF TypPair
<1>4. slp \in SleepRecord /\ slp.pc = "awake"
  BY <1>2, <1>3 DEF SleepRecord
<1>5. PICK en \in SUBSET EventName :
        hw = [r \in RegName |->
                [i \in 0 .. 1 |-> IF r = "PM1_EN" /\ Present(r, i) THEN en
                                  ELSE IF r = "PM1_CNT" /\ Present(r, i)
                                  THEN {"typ0", "RSVD"} ELSE {}]]
  BY DEF SleepInit, FixedInit, RegistersInit
<1>6. "PM1_CNT" \in RegName /\ Present("PM1_CNT", 0)
  BY RegisterTable DEF Present
<1>7. hw["PM1_CNT"][0] = {"typ0", "RSVD"}
  BY <1>5, <1>6
<1>8. HasRsvd(hw)
  BY <1>1, <1>7 DEF HasRsvd, FixedIInv, EnableOK
<1> QED
  BY <1>1, <1>4, <1>8 DEF SleepIInv, SleepingOK, GpesDown, Down

LEMMA SleepNextStep == SleepIInv /\ [SleepNext]_sleepVars => SleepIInv'
<1> SUFFICES ASSUME SleepIInv, [SleepNext]_sleepVars PROVE SleepIInv'
  OBVIOUS
<1>1. CASE SleepStep
  BY <1>1, PrepareStep, EnterFullStep, EnterReducedStep, SlpEnStep, PlatformStep, ReturnsStep,
     PrepareWakeStep, WakeStep, ModeStep, FirmwareStep, ModeReturnsStep DEF SleepStep
<1>2. CASE uacpi_initialize_events_early /\ KeepGpes /\ KeepSleep
  BY <1>2, EarlySleepStep
<1>3. ASSUME NEW e \in Raised, RaiseFixed(e) /\ KeepGpes /\ KeepSleep PROVE SleepIInv'
  <2>1. e \in EventName
    BY FixedAssumption
  <2> QED
    BY <1>3, <2>1, RaiseSleepStep
<1>4. ASSUME NEW g \in Gpe, slp.pc = "awake", GpeCallHere(g), KeepHw, KeepEvents, KeepSleep
      PROVE  SleepIInv'
  BY <1>4, AwakeStep
<1>5. CASE UNCHANGED sleepVars
  <2>1. KeepHw /\ KeepEvents /\ KeepGpes /\ UNCHANGED slp
    BY <1>5 DEF sleepVars, KeepHw, KeepEvents, KeepGpes, gpeVars
  <2>2. FixedIInv' /\ GpeIInv'
    BY <2>1, KeptEvents, KeptGpes DEF SleepIInv
  <2> QED
    BY <1>5, <2>2 DEF SleepIInv, sleepVars, HasRsvd, SleepingOK, GpesDown
<1> QED
  BY <1>1, <1>2, <1>3, <1>4, <1>5 DEF SleepNext, GpeCallHere

LEMMA SleepIInvPrepared == SleepIInv => SleepIsPrepared
<1> SUFFICES ASSUME SleepIInv PROVE SleepIsPrepared
  OBVIOUS
<1>1. FixedTypeOK
  BY FixedNames DEF SleepIInv, FixedIInv, FixedTypeOK, RegistersTypeOK, MappingOK, EnableOK, Hw,
     AllBits, UACPI_FIXED_EVENT_MAX
<1>2. GpeTypeOK
  BY GpeIInvSound DEF SleepIInv, GpesAreSound
<1>3. slp.pc \in {"awake", "typed", "slept", "woken", "waking", "mode"} /\ slp.last \in TypPair
  BY DEF SleepIInv, SleepRecord
<1>4. \A i \in 1 .. 2 : slp.last[i] \in SlpTyp \cup {Invalid}
  BY <1>3, PairOfTypes
<1>5. SleepTypeOK
  BY <1>1, <1>2, <1>3, <1>4 DEF SleepTypeOK
<1>6. ASSUME slp.pc = "slept", ~slp.reduced
      PROVE  /\ \A i \in Mapped(mapping, "PM1_CNT") : hw["PM1_CNT"][i] \cap SlpTyp = {slp.last[i + 1]}
             /\ gpe.enable = gpe.wakes /\ "RSVD" \in hw["PM1_CNT"][0]
  BY <1>6 DEF SleepIInv, SleepingOK, TypesIn, GpesDown, HasRsvd, Mapped
<1> QED
  BY <1>5, <1>6 DEF SleepIsPrepared

\* Whatever the firmware left, whichever packages \_Sx are and in whatever order the
\* events, the sleep calls and the mode changes come: when SLP_EN is set, each part
\* of PM1_CNT holds the type of the last successful preparation and its reserved
\* bits, and only wake events can interrupt.
THEOREM SleepPrepared == SleepInit /\ [][SleepNext]_sleepVars => []SleepIsPrepared
  BY SleepInitOK, SleepNextStep, SleepIInvPrepared, PTL

LEMMA OnlyWakeAwakes ==
    ASSUME SleepNext, slp.pc = "waking", slp'.pc = "awake" PROVE uacpi_wake_from_sleep_state
<1>1. ~KeepSleep /\ ~(UNCHANGED slp)
  BY DEF KeepSleep
<1>2. SleepStep
  BY <1>1 DEF SleepNext
<1> QED
  BY <1>1, <1>2 DEF SleepStep, uacpi_prepare_for_sleep_state, enter_sleep_state_hw_full,
     enter_sleep_state_hw_reduced, WriteSlpEn, PlatformWakes, SleepReturns, uacpi_prepare_for_wake,
     enter_mode, FirmwareSetsMode, ModeReturns, SleepCall

\* Back from sleep on full hardware, what interrupts is what was enabled and not
\* masked before, and WAK_STS is clear, for any set of events.
THEOREM WakeRestores == SleepInit /\ [][SleepNext]_sleepVars => AwakeIsRestored
<1> DEFINE A == (slp.pc = "waking" /\ slp'.pc = "awake" /\ ~slp.reduced) =>
                  /\ gpe'.enable = gpe.runtime \ gpe.masked
                  /\ "WAK" \notin hw'["PM1_STS"][0]
<1>1. SleepIInv /\ [SleepNext]_sleepVars => [A]_sleepVars
  <2> SUFFICES ASSUME SleepIInv, SleepNext, slp.pc = "waking", slp'.pc = "awake", ~slp.reduced
               PROVE  /\ gpe'.enable = gpe.runtime \ gpe.masked
                      /\ "WAK" \notin hw'["PM1_STS"][0]
    OBVIOUS
  <2>1. uacpi_wake_from_sleep_state
    BY OnlyWakeAwakes
  <2>2. WakeGpes
    BY <2>1 DEF uacpi_wake_from_sleep_state
  <2>3. gpe'.enable = gpe.runtime \ gpe.masked
    BY <2>2, SleptRegister DEF WakeGpes, SleepIInv, GpeIInv, RegisterOK
  <2> QED
    BY <2>1, <2>3, WakeWrites
<1>2. SleepIInv /\ [SleepNext]_sleepVars => SleepIInv'
  BY SleepNextStep
<1> QED
  BY <1>1, <1>2, SleepInitOK, PTL DEF AwakeIsRestored

=============================================================================
