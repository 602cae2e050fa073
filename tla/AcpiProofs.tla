----------------------------- MODULE AcpiProofs -----------------------------
(***************************************************************************)
(* The parts of uACPI that keep a small state of their own, for any number *)
(* of threads, handlers, regions and interfaces.                           *)
(***************************************************************************)
EXTENDS UacpiNotify, UacpiOsi, UacpiOpregion, UacpiInit, UacpiLocks, UacpiTables,
        UacpiGpeBlocks, ListProofs, FiniteSetTheorems

(***************************************************************************)
(* Notifications.  What protects a walk without a lock is that a change    *)
(* waits until no notification runs.                                       *)
(***************************************************************************)
CallsOfDrivers == [op : {"none", "install", "remove"}, list : Lists, h : NotifyHandler]

NotifyIInv ==
    /\ notifyHead \in [Lists -> Seq(NotifyHandler)]
    /\ doing \in [list : Lists \cup {"none"}, next : Seq(NotifyHandler)]
    /\ call \in [NotifyDriver -> CallsOfDrivers]
    /\ NotifiesLiveHandlers

LEMMA NotifyInitIInv == NotifyInit => NotifyIInv
<1> SUFFICES ASSUME NotifyInit PROVE NotifyIInv
  OBVIOUS
<1>1. NoCall \in CallsOfDrivers
  BY NotifyAssumption DEF NoCall, CallsOfDrivers, Lists
<1> QED
  BY <1>1, EmptySeq DEF NotifyInit, NotifyIInv, NotifiesLiveHandlers, NoDo, Lists

LEMMA NotifyStep == NotifyIInv /\ [NotifyNext]_notifyVars => NotifyIInv'
<1> SUFFICES ASSUME NotifyIInv, [NotifyNext]_notifyVars PROVE NotifyIInv'
  OBVIOUS
<1> USE DEF NotifyIInv, NotifiesLiveHandlers
<1>1. CASE uacpi_notify_all
  BY <1>1 DEF uacpi_notify_all
<1>2. CASE DoNotifyStarts
  BY <1>2 DEF DoNotifyStarts, Lists
<1>3. CASE DoNotifyCalls
  <2>1. Tail(doing.next) \in Seq(NotifyHandler) /\ Range(Tail(doing.next)) \subseteq Range(doing.next)
    BY <1>3, TailRange DEF DoNotifyCalls
  <2>2. doing'.list = doing.list /\ doing'.next = Tail(doing.next)
    BY <1>3 DEF DoNotifyCalls
  <2> QED
    BY <1>3, <2>1, <2>2 DEF DoNotifyCalls
<1>4. CASE DoNotifyEnds
  BY <1>4, EmptySeq DEF DoNotifyEnds, Lists, NoDo
<1>5. ASSUME NEW d \in NotifyDriver, NEW l \in Lists, NEW h \in NotifyHandler,
             NEW op \in {"install", "remove"}, BeginChange(d, op, l, h)
      PROVE  NotifyIInv'
  BY <1>5 DEF BeginChange, CallsOfDrivers
<1>6. ASSUME NEW d \in NotifyDriver, Change(d) PROVE NotifyIInv'
  <2> DEFINE c == call[d]
             list == notifyHead[c.list]
             linked == Contains(list, c.h)
             new == IF c.op = "remove" THEN IF linked THEN RemoveAt(list, handler_container(list, c.h))
                                            ELSE list
                    ELSE IF linked THEN list ELSE <<c.h>> \o list
  <2>1. c \in CallsOfDrivers /\ list \in Seq(NotifyHandler)
    BY DEF CallsOfDrivers
  <2>2. new \in Seq(NotifyHandler)
    <3>1. linked => handler_container(list, c.h) \in 1 .. Len(list)
      BY <2>1, LenProperties DEF Contains, handler_container
    <3>2. linked => RemoveAt(list, handler_container(list, c.h)) \in Seq(NotifyHandler)
      BY <2>1, <3>1, RemoveAtProperties
    <3>3. <<c.h>> \o list \in Seq(NotifyHandler)
      BY <2>1, ConsProperties DEF CallsOfDrivers
    <3> QED
      BY <2>1, <3>2, <3>3
  <2>3. notifyHead' = [notifyHead EXCEPT ![c.list] = new] /\ doing.list = "none"
    BY <1>6 DEF Change, uacpi_kernel_wait_for_work_completion
  <2>4. NoCall \in CallsOfDrivers
    BY NotifyAssumption DEF NoCall, CallsOfDrivers, Lists
  <2>5. call' = [call EXCEPT ![d] = NoCall] /\ UNCHANGED doing
    BY <1>6 DEF Change
  <2> HIDE DEF c, new
  <2> QED
    BY <2>1, <2>2, <2>3, <2>4, <2>5 DEF Lists
<1>7. CASE UNCHANGED notifyVars
  BY <1>7 DEF notifyVars
<1> QED
  BY <1>1, <1>2, <1>3, <1>4, <1>5, <1>6, <1>7 DEF NotifyNext

\* However many drivers install and remove handlers meanwhile, a notification that
\* runs has only linked handlers left to call (notify.c: do_notify walks its list
\* without a lock; uacpi_uninstall_notify_handler frees what it unlinks).
THEOREM NotificationsAreSafe == NotifyInit /\ [][NotifyNext]_notifyVars => []NotifiesLiveHandlers
<1>1. NotifyIInv => NotifiesLiveHandlers
  BY DEF NotifyIInv
<1> QED
  BY <1>1, NotifyInitIInv, NotifyStep, PTL

(***************************************************************************)
(* Operation regions.  A permanent region is served by the nearest device  *)
(* above it that has a handler, so the walk that removes a handler finds   *)
(* every permanent region that the handler serves.                         *)
(***************************************************************************)
RegionState ==
    [there : BOOLEAN, handler : Range(OpDevice) \cup {OpNone, OpRemoved},
     attached : BOOLEAN, reg : BOOLEAN]

NoneBetween(d, r) ==
    \A i \in Level(d) + 1 .. Level(OpRegion[r].dev) :
        ~find_handler(OpDevice[i], OpRegion[r].space)

Served(r) ==
    IF region[r].handler = OpNone THEN ~region[r].attached
    ELSE /\ region[r].there
         /\ region[r].attached => told[r] = region[r].handler
         /\ IF region[r].handler = OpRemoved THEN OpRegion[r].temporary
            ELSE /\ find_handler(region[r].handler, OpRegion[r].space)
                 /\ Level(region[r].handler) <= Level(OpRegion[r].dev)
                 /\ OpRegion[r].temporary \/ NoneBetween(region[r].handler, r)

IoInBounds == io.region # OpNone => io.end <= OpRegion[io.region].length

OpIInv ==
    /\ handlersOf \in [Range(OpDevice) -> Seq(OpSpace)]
    /\ region \in [Regions -> RegionState] /\ DOMAIN told = Regions
    /\ \A r \in Regions : Served(r)
    /\ IoInBounds

\* Level numbers the devices.
LEMMA LevelProperties ==
    /\ \A d \in Range(OpDevice) : Level(d) \in 1 .. Len(OpDevice) /\ OpDevice[Level(d)] = d
    /\ \A i \in 1 .. Len(OpDevice) : OpDevice[i] \in Range(OpDevice) /\ Level(OpDevice[i]) = i
    /\ Len(OpDevice) \in Nat
<1>1. DOMAIN OpDevice = 1 .. Len(OpDevice) /\ Len(OpDevice) \in Nat
  BY OpAssumption, LenProperties
<1>2. ASSUME NEW d \in Range(OpDevice)
      PROVE  Level(d) \in 1 .. Len(OpDevice) /\ OpDevice[Level(d)] = d
  <2>1. \E i \in DOMAIN OpDevice : OpDevice[i] = d
    BY <1>2 DEF Range
  <2> QED
    BY <1>1, <2>1 DEF Level
<1>3. \A i \in 1 .. Len(OpDevice) : OpDevice[i] \in Range(OpDevice)
  BY <1>1 DEF Range
<1>4. \A i \in 1 .. Len(OpDevice) : Level(OpDevice[i]) = i
  BY <1>1, <1>2, <1>3, OpAssumption
<1> QED
  BY <1>1, <1>2, <1>3, <1>4

\* _REG changes nothing but its flag.
SameButReg(Q, R) ==
    /\ Q \in [Regions -> RegionState]
    /\ \A r \in Regions : /\ Q[r].there = R[r].there /\ Q[r].handler = R[r].handler
                          /\ Q[r].attached = R[r].attached

LEMMA RegKeeps ==
    ASSUME NEW R \in [Regions -> RegionState], NEW d, NEW space
    PROVE  /\ SameButReg(reg_or_unreg_all_opregions(R, d, space, TRUE), R)
           /\ SameButReg(reg_or_unreg_all_opregions(R, d, space, FALSE), R)
<1>1. ASSUME NEW connect \in BOOLEAN
      PROVE  SameButReg(reg_or_unreg_all_opregions(R, d, space, connect), R)
  <2> DEFINE Q == reg_or_unreg_all_opregions(R, d, space, connect)
  <2>1. ASSUME NEW r \in Regions
        PROVE  /\ Q[r] \in RegionState /\ Q[r].there = R[r].there /\ Q[r].handler = R[r].handler
               /\ Q[r].attached = R[r].attached
    <3>1. R[r] \in RegionState
      OBVIOUS
    <3>2. (connect /\ HasReg(r)) \in BOOLEAN
      OBVIOUS
    <3>3. Q[r] = R[r] \/ Q[r] = [R[r] EXCEPT !.reg = connect /\ HasReg(r)]
      BY DEF reg_or_unreg_all_opregions
    <3> QED
      BY <3>1, <3>2, <3>3 DEF RegionState
  <2>2. Q = [r \in Regions |-> Q[r]]
    BY DEF reg_or_unreg_all_opregions
  <2> QED
    BY <2>1, <2>2 DEF SameButReg
<1>2. TRUE \in BOOLEAN /\ FALSE \in BOOLEAN
  OBVIOUS
<1> QED
  BY <1>1, <1>2, Zenon

\* A handler is linked at the head of the list of its device.
LEMMA InstallFinds ==
    ASSUME NEW H \in [Range(OpDevice) -> Seq(OpSpace)], NEW d \in Range(OpDevice), NEW space \in OpSpace
    PROVE  LET G == [H EXCEPT ![d] = <<space>> \o @]
           IN  /\ G \in [Range(OpDevice) -> Seq(OpSpace)]
               /\ \A e \in Range(OpDevice) : \A t :
                    Contains(G[e], t) <=> Contains(H[e], t) \/ (e = d /\ t = space)
<1> DEFINE s == <<space>> \o H[d]
           G == [H EXCEPT ![d] = s]
<1>1. H[d] \in Seq(OpSpace) /\ Len(H[d]) \in Nat
  BY LenProperties
<1>2. /\ s \in Seq(OpSpace) /\ Len(s) = Len(H[d]) + 1 /\ s[1] = space
      /\ \A j \in 2 .. Len(H[d]) + 1 : s[j] = H[d][j - 1]
  BY <1>1, ConsProperties
<1> HIDE DEF s
<1>3. ASSUME NEW t PROVE Contains(s, t) <=> Contains(H[d], t) \/ t = space
  <2>1. ASSUME Contains(s, t) PROVE Contains(H[d], t) \/ t = space
    <3>1. PICK j \in 1 .. Len(s) : s[j] = t
      BY <2>1 DEF Contains
    <3>2. CASE j = 1
      BY <1>2, <3>1, <3>2
    <3>3. CASE j # 1
      <4>1. j \in 2 .. Len(H[d]) + 1 /\ j - 1 \in 1 .. Len(H[d])
        BY <1>1, <1>2, <3>3
      <4> QED
        BY <1>2, <3>1, <4>1 DEF Contains
    <3> QED
      BY <3>2, <3>3
  <2>2. ASSUME Contains(H[d], t) PROVE Contains(s, t)
    <3>1. PICK j \in 1 .. Len(H[d]) : H[d][j] = t
      BY <2>2 DEF Contains
    <3>2. j + 1 \in 2 .. Len(H[d]) + 1 /\ (j + 1) - 1 = j /\ j + 1 \in 1 .. Len(s)
      BY <1>1, <1>2
    <3>3. s[j + 1] = t
      BY <1>2, <3>1, <3>2
    <3> QED
      BY <3>2, <3>3 DEF Contains
  <2>3. Contains(s, space)
    <3>1. 1 \in 1 .. Len(s)
      BY <1>1, <1>2
    <3> QED
      BY <1>2, <3>1 DEF Contains
  <2> QED
    BY <2>1, <2>2, <2>3
<1>4. G \in [Range(OpDevice) -> Seq(OpSpace)] /\ G[d] = s
      /\ \A e \in Range(OpDevice) : e # d => G[e] = H[e]
  BY <1>2
<1> QED
  BY <1>3, <1>4 DEF s

\* Unlinking a handler leaves the others of the device.
LEMMA RemoveFinds ==
    ASSUME NEW H \in [Range(OpDevice) -> Seq(OpSpace)], NEW d \in Range(OpDevice),
           NEW i \in DOMAIN H[d]
    PROVE  LET G == [H EXCEPT ![d] = RemoveAt(@, i)]
           IN  /\ G \in [Range(OpDevice) -> Seq(OpSpace)]
               /\ \A e \in Range(OpDevice) : \A t :
                    /\ Contains(G[e], t) => Contains(H[e], t)
                    /\ Contains(H[e], t) /\ (e # d \/ t # H[d][i]) => Contains(G[e], t)
<1> DEFINE h == H[d]
           s == RemoveAt(h, i)
           G == [H EXCEPT ![d] = s]
<1>1. h \in Seq(OpSpace) /\ Len(h) \in Nat /\ i \in 1 .. Len(h)
  BY LenProperties
<1> HIDE DEF h
<1>2. /\ s \in Seq(OpSpace) /\ Len(s) = Len(h) - 1
      /\ \A j \in 1 .. Len(h) - 1 : s[j] = IF j < i THEN h[j] ELSE h[j + 1]
  BY <1>1, RemoveAtProperties
<1> HIDE DEF s
<1>3. ASSUME NEW t, Contains(s, t) PROVE Contains(h, t)
  <2>1. PICK j \in 1 .. Len(s) : s[j] = t
    BY <1>3 DEF Contains
  <2>2. j \in 1 .. Len(h) /\ j + 1 \in 1 .. Len(h) /\ (h[j] = t \/ h[j + 1] = t)
    BY <1>1, <1>2, <2>1
  <2> QED
    BY <2>2 DEF Contains
<1>4. ASSUME NEW t, Contains(h, t), t # h[i] PROVE Contains(s, t)
  <2>1. PICK j \in 1 .. Len(h) : h[j] = t
    BY <1>4 DEF Contains
  <2>2. j # i
    BY <1>4, <2>1
  <2>3. CASE j < i
    <3>1. j \in 1 .. Len(s) /\ j \in 1 .. Len(h) - 1
      BY <1>1, <1>2, <2>3
    <3> QED
      BY <1>2, <2>1, <2>3, <3>1 DEF Contains
  <2>4. CASE j > i
    <3>1. j - 1 \in 1 .. Len(s) /\ j - 1 \in 1 .. Len(h) - 1 /\ ~(j - 1 < i) /\ (j - 1) + 1 = j
      BY <1>1, <1>2, <2>4
    <3>2. s[j - 1] = t
      BY <1>2, <2>1, <3>1
    <3> QED
      BY <3>1, <3>2 DEF Contains
  <2> QED
    BY <1>1, <2>2, <2>3, <2>4
<1>5. G \in [Range(OpDevice) -> Seq(OpSpace)] /\ G[d] = s
      /\ \A e \in Range(OpDevice) : e # d => G[e] = H[e]
  BY <1>2
<1> QED
  BY <1>3, <1>4, <1>5 DEF s, h

LEMMA InstallStep ==
    ASSUME OpIInv, NEW d \in Range(OpDevice), NEW space \in OpSpace,
           uacpi_install_address_space_handler(d, space)
    PROVE  OpIInv'
<1> DEFINE hit == {r \in Visited(d, space) : ~OpRegion[r].temporary}
           un == [r \in Regions |-> IF r \in hit /\ region[r].handler # OpNone
                                    THEN region_uninstall_handler(region, r)[r] ELSE region[r]]
           in == [r \in Regions |-> IF r \in hit THEN region_install_handler(un, r, d)[r] ELSE un[r]]
<1>1. /\ handlersOf' = [handlersOf EXCEPT ![d] = <<space>> \o @]
      /\ region' = IF space \in OpNeedsReg /\ loaded
                   THEN reg_or_unreg_all_opregions(in, d, space, TRUE) ELSE in
      /\ told' = Detached(in, told) /\ io' = io
  BY DEF uacpi_install_address_space_handler
<1>2. handlersOf' \in [Range(OpDevice) -> Seq(OpSpace)]
  BY <1>1, InstallFinds DEF OpIInv
<1>3. \A e \in Range(OpDevice) : \A t :
        Contains(handlersOf'[e], t) <=> Contains(handlersOf[e], t) \/ (e = d /\ t = space)
  <2> DEFINE G == [handlersOf EXCEPT ![d] = <<space>> \o @]
  <2>1. \A e \in Range(OpDevice) : \A t :
          Contains(G[e], t) <=> Contains(handlersOf[e], t) \/ (e = d /\ t = space)
    BY InstallFinds, Zenon DEF OpIInv
  <2>2. G = handlersOf'
    BY <1>1
  <2> HIDE DEF G
  <2> QED
    BY <2>1, <2>2
<1>4. ASSUME NEW r \in Regions
      PROVE  /\ in[r] \in RegionState /\ in[r].there = region[r].there
             /\ r \in hit => in[r].handler = d /\ ~in[r].attached
             /\ r \notin hit => in[r] = region[r]
  <2>1. region[r] \in RegionState /\ (region[r].handler = OpNone => ~region[r].attached)
    BY DEF OpIInv, Served
  <2>2. CASE r \in hit
    <3>1. un[r] = IF region[r].handler # OpNone
                  THEN [region[r] EXCEPT !.handler = OpNone, !.attached = FALSE] ELSE region[r]
      BY <2>1, <2>2 DEF region_uninstall_handler, OpIInv
    <3>2. un[r] \in RegionState /\ un[r].there = region[r].there /\ ~un[r].attached
      BY <2>1, <3>1 DEF RegionState
    <3> HIDE DEF un
    <3>3. in[r] = [un[r] EXCEPT !.handler = d]
      BY <2>2 DEF region_install_handler, un
    <3> QED
      BY <2>2, <3>2, <3>3 DEF RegionState
  <2>3. CASE r \notin hit
    BY <2>1, <2>3
  <2> QED
    BY <2>2, <2>3
<1>5. in \in [Regions -> RegionState]
  BY <1>4
<1> HIDE DEF un, in
<1>6. /\ region' \in [Regions -> RegionState]
      /\ \A r \in Regions : /\ region'[r].there = in[r].there
                            /\ region'[r].handler = in[r].handler
                            /\ region'[r].attached = in[r].attached
  <2> DEFINE Q == reg_or_unreg_all_opregions(in, d, space, TRUE)
  <2>1. SameButReg(Q, in)
    BY <1>5, RegKeeps
  <2>2. region' = Q \/ region' = in
    BY <1>1
  <2> HIDE DEF Q
  <2> QED
    BY <1>5, <2>1, <2>2 DEF SameButReg
<1>7. \A r \in Regions : in[r].attached => told'[r] = told[r]
  BY <1>1 DEF Detached
<1>8. ASSUME NEW r \in Regions PROVE Served(r)'
  <2>0. OpRegion[r].dev \in Range(OpDevice)
    BY OpAssumption DEF Regions
  <2>1. CASE r \in hit
    <3>1. /\ region'[r].handler = d /\ ~region'[r].attached /\ region'[r].there
          /\ OpRegion[r].space = space /\ Level(d) <= Level(OpRegion[r].dev)
      BY <1>4, <1>6, <2>0, <2>1, LevelProperties DEF Visited, Under
    <3>2. d # OpNone /\ d # OpRemoved
      BY OpAssumption
    <3>3. Contains(handlersOf'[d], space)
      BY <1>3
    <3>4. ASSUME NEW i \in Level(d) + 1 .. Level(OpRegion[r].dev)
          PROVE  ~Contains(handlersOf'[OpDevice[i]], space)
      <4>1. ~Contains(handlersOf[OpDevice[i]], space)
        BY <2>1, <3>4 DEF Visited, find_handler
      <4>2. i \in 1 .. Len(OpDevice) /\ i # Level(d)
        BY <2>0, LevelProperties
      <4>3. OpDevice[i] # d /\ OpDevice[i] \in Range(OpDevice)
        BY <4>2, LevelProperties
      <4> QED
        BY <1>3, <4>1, <4>3
    <3> QED
      BY <3>1, <3>2, <3>3, <3>4 DEF Served, NoneBetween, find_handler
  <2>2. CASE r \notin hit
    <3>1. /\ region'[r].handler = region[r].handler /\ region'[r].there = region[r].there
          /\ region'[r].attached = region[r].attached
          /\ region[r].attached => told'[r] = told[r]
      BY <1>4, <1>6, <1>7, <2>2
    <3>2. Served(r) /\ region[r].handler \in Range(OpDevice) \cup {OpNone, OpRemoved}
      BY DEF OpIInv, RegionState
    <3>3. CASE region[r].handler \in {OpNone, OpRemoved}
      BY <3>1, <3>2, <3>3 DEF Served
    <3>4. CASE region[r].handler \in Range(OpDevice)
      <4> DEFINE h == region[r].handler
      <4>1. h # OpNone /\ h # OpRemoved
        BY <3>4, OpAssumption
      <4>2. Contains(handlersOf'[h], OpRegion[r].space)
        BY <1>3, <3>2, <3>4, <4>1 DEF Served, find_handler
      <4>3. ASSUME ~OpRegion[r].temporary, NEW i \in Level(h) + 1 .. Level(OpRegion[r].dev)
            PROVE  ~Contains(handlersOf'[OpDevice[i]], OpRegion[r].space)
        <5>1. i \in 1 .. Len(OpDevice) /\ OpDevice[i] \in Range(OpDevice) /\ Level(OpDevice[i]) = i
          BY <2>0, <3>4, LevelProperties
        <5>2. NoneBetween(h, r) /\ region[r].there
          BY <3>2, <4>1, <4>3 DEF Served
        <5>3. ~Contains(handlersOf[OpDevice[i]], OpRegion[r].space)
          BY <4>3, <5>2 DEF NoneBetween, find_handler
        <5>4. ASSUME OpDevice[i] = d, OpRegion[r].space = space PROVE FALSE
          <6>1. Level(d) = i /\ r \in Under(d)
            BY <2>0, <5>1, <5>4, LevelProperties DEF Under
          <6>2. \A j \in Level(d) + 1 .. Level(OpRegion[r].dev) : ~find_handler(OpDevice[j], space)
            <7>1. \A j \in i + 1 .. Level(OpRegion[r].dev) : j \in Level(h) + 1 .. Level(OpRegion[r].dev)
              BY <2>0, <3>4, <4>3, LevelProperties
            <7> QED
              BY <5>2, <5>4, <6>1, <7>1 DEF NoneBetween
          <6>3. r \in Visited(d, space)
            BY <5>2, <5>4, <6>1, <6>2 DEF Visited
          <6> QED
            BY <2>2, <4>3, <6>3
        <5> QED
          BY <1>3, <5>1, <5>3, <5>4
      <4> QED
        BY <3>1, <3>2, <4>1, <4>2, <4>3 DEF Served, NoneBetween, find_handler
    <3> QED
      BY <3>2, <3>3, <3>4
  <2> QED
    BY <2>1, <2>2
<1>9. DOMAIN told' = Regions
  BY <1>1 DEF Detached
<1> QED
  BY <1>1, <1>2, <1>6, <1>8, <1>9 DEF OpIInv, IoInBounds

LEMMA UninstallStep ==
    ASSUME OpIInv, NEW d \in Range(OpDevice), NEW space \in OpSpace,
           uacpi_uninstall_address_space_handler(d, space)
    PROVE  OpIInv'
<1> DEFINE mine == {r \in Regions : region[r].handler = d /\ OpRegion[r].space = space}
           missed == mine \ Visited(d, space)
           pos == CHOOSE i \in DOMAIN handlersOf[d] : handlersOf[d][i] = space
           un == [r \in Regions |->
                    IF r \in missed THEN [region[r] EXCEPT !.handler = OpRemoved]
                    ELSE IF r \in mine THEN region_uninstall_handler(region, r)[r] ELSE region[r]]
           G == [handlersOf EXCEPT ![d] = RemoveAt(@, pos)]
<1>1. /\ handlersOf' = G
      /\ region' = IF Head(handlersOf[d]) = space /\ space \in OpNeedsReg
                   THEN reg_or_unreg_all_opregions(un, d, space, FALSE) ELSE un
      /\ told' = [r \in Regions |->
                    IF r \in missed /\ told[r] = d THEN OpRemoved ELSE Detached(un, told)[r]]
      /\ io' = io /\ find_handler(d, space)
  BY DEF uacpi_uninstall_address_space_handler
<1>0. d # OpNone /\ d # OpRemoved /\ OpNone # OpRemoved
  BY OpAssumption DEF OpNone, OpRemoved
<1>2. pos \in DOMAIN handlersOf[d] /\ handlersOf[d][pos] = space
  BY <1>1, LenProperties DEF find_handler, Contains, OpIInv
<1> HIDE DEF pos
<1>3. /\ G \in [Range(OpDevice) -> Seq(OpSpace)]
      /\ \A e \in Range(OpDevice) : \A t :
           /\ Contains(G[e], t) => Contains(handlersOf[e], t)
           /\ Contains(handlersOf[e], t) /\ (e # d \/ t # handlersOf[d][pos]) => Contains(G[e], t)
  BY <1>2, RemoveFinds, Zenon DEF OpIInv
<1> HIDE DEF G
<1>4. ASSUME NEW r \in Regions
      PROVE  /\ un[r] \in RegionState /\ un[r].there = region[r].there
             /\ r \in missed => un[r].handler = OpRemoved /\ un[r].attached = region[r].attached
             /\ r \in mine \ missed => un[r].handler = OpNone /\ ~un[r].attached
             /\ r \notin mine => un[r] = region[r]
  <2>1. region[r] \in RegionState
    BY DEF OpIInv
  <2>2. CASE r \in missed
    BY <2>1, <2>2 DEF RegionState
  <2>3. CASE r \in mine \ missed
    <3>1. un[r] = [region[r] EXCEPT !.handler = OpNone, !.attached = FALSE]
      BY <2>1, <2>3 DEF region_uninstall_handler, OpIInv
    <3> HIDE DEF un, mine, missed
    <3> QED
      BY <2>1, <2>3, <3>1 DEF RegionState
  <2>4. CASE r \notin mine
    BY <2>1, <2>4
  <2> QED
    BY <2>2, <2>3, <2>4
<1>5. un \in [Regions -> RegionState]
  BY <1>4
<1> HIDE DEF un
<1>6. /\ region' \in [Regions -> RegionState]
      /\ \A r \in Regions : /\ region'[r].there = un[r].there
                            /\ region'[r].handler = un[r].handler
                            /\ region'[r].attached = un[r].attached
  <2> DEFINE Q == reg_or_unreg_all_opregions(un, d, space, FALSE)
  <2>1. SameButReg(Q, un)
    BY <1>5, RegKeeps
  <2>2. region' = Q \/ region' = un
    BY <1>1
  <2> HIDE DEF Q
  <2> QED
    BY <1>5, <2>1, <2>2 DEF SameButReg
<1>7. \A r \in Regions :
        un[r].attached => told'[r] = IF r \in missed /\ told[r] = d THEN OpRemoved ELSE told[r]
  BY <1>1 DEF Detached
<1>8. ASSUME NEW r \in Regions PROVE Served(r)'
  <2>0. OpRegion[r].dev \in Range(OpDevice) /\ Served(r)
    BY OpAssumption DEF Regions, OpIInv
  <2>1. CASE r \in missed
    <3>1. /\ region'[r].handler = OpRemoved /\ region'[r].there = region[r].there
          /\ region'[r].attached = region[r].attached /\ region[r].handler = d
          /\ OpRegion[r].space = space
      BY <1>4, <1>6, <2>1
    <3>2. region[r].there /\ (region[r].attached => told[r] = d)
          /\ Level(d) <= Level(OpRegion[r].dev)
          /\ (OpRegion[r].temporary \/ NoneBetween(d, r))
      BY <1>0, <2>0, <3>1 DEF Served
    <3>3. region[r].attached => told'[r] = OpRemoved
      BY <1>4, <1>6, <1>7, <2>1, <3>1, <3>2
    <3>4. OpRegion[r].temporary
      <4> SUFFICES ASSUME NoneBetween(d, r) PROVE FALSE
        BY <3>2
      <4>1. r \in Under(d)
        BY <2>0, <3>2, LevelProperties DEF Under
      <4>2. r \in Visited(d, space)
        BY <3>1, <3>2, <4>1 DEF Visited, NoneBetween
      <4> QED
        BY <2>1, <4>2
    <3> QED
      BY <1>0, <3>1, <3>2, <3>3, <3>4 DEF Served
  <2>2. CASE r \in mine \ missed
    BY <1>4, <1>6, <2>2 DEF Served
  <2>3. CASE r \notin mine
    <3>1. /\ region'[r].handler = region[r].handler /\ region'[r].there = region[r].there
          /\ region'[r].attached = region[r].attached
          /\ region[r].attached => told'[r] = told[r]
      BY <1>4, <1>6, <1>7, <2>3
    <3>2. region[r].handler \in Range(OpDevice) \cup {OpNone, OpRemoved}
      BY DEF OpIInv, RegionState
    <3>3. CASE region[r].handler \in {OpNone, OpRemoved}
      BY <2>0, <3>1, <3>3 DEF Served
    <3>4. CASE region[r].handler \in Range(OpDevice)
      <4> DEFINE h == region[r].handler
      <4>1. h # OpNone /\ h # OpRemoved
        BY <3>4, OpAssumption
      <4>2. Contains(handlersOf'[h], OpRegion[r].space)
        <5>1. h # d \/ OpRegion[r].space # space
          BY <2>3
        <5> QED
          BY <1>1, <1>2, <1>3, <2>0, <3>4, <4>1, <5>1 DEF Served, find_handler
      <4>3. \A i \in Level(h) + 1 .. Level(OpRegion[r].dev) :
              Contains(handlersOf'[OpDevice[i]], OpRegion[r].space) =>
                Contains(handlersOf[OpDevice[i]], OpRegion[r].space)
        <5>1. \A i \in Level(h) + 1 .. Level(OpRegion[r].dev) : OpDevice[i] \in Range(OpDevice)
          BY <2>0, <3>4, LevelProperties
        <5> QED
          BY <1>1, <1>3, <5>1
      <4> QED
        BY <2>0, <3>1, <4>1, <4>2, <4>3 DEF Served, NoneBetween, find_handler
    <3> QED
      BY <3>2, <3>3, <3>4
  <2> QED
    BY <2>1, <2>2, <2>3
<1>9. DOMAIN told' = Regions
  BY <1>1
<1> QED
  BY <1>1, <1>3, <1>6, <1>8, <1>9 DEF OpIInv, IoInBounds

\* A new region is given the handler of the nearest device above it that has one.
LEMMA NewRegionStep ==
    ASSUME OpIInv, NEW r \in Regions, uacpi_initialize_opregion_node(r)
    PROVE  OpIInv'
<1> DEFINE above == {i \in 1 .. Level(OpRegion[r].dev) : find_handler(OpDevice[i], OpRegion[r].space)}
           n == CHOOSE i \in above : \A j \in above : j <= i
           d == OpDevice[n]
           new == [Gone EXCEPT !.there = TRUE]
           flag == OpRegion[r].space \in OpNeedsReg /\ loaded /\ HasReg(r)
           state == IF above = {} THEN new ELSE [new EXCEPT !.handler = d, !.reg = flag]
<1>1. /\ ~region[r].there /\ region' = [region EXCEPT ![r] = state]
      /\ handlersOf' = handlersOf /\ told' = told /\ io' = io
  BY DEF uacpi_initialize_opregion_node
<1>2. OpRegion[r].dev \in Range(OpDevice)
  BY OpAssumption DEF Regions
<1>3. ASSUME above # {}
      PROVE  n \in above /\ \A j \in above : j <= n
  <2>1. Level(OpRegion[r].dev) \in Nat
    BY <1>2, LevelProperties
  <2>2. \E i \in above : \A j \in above : j <= i
    BY <1>3, <2>1, LargestIndex
  <2> QED
    BY <2>2
<1> HIDE DEF n
<1>4. new \in RegionState /\ new.there /\ ~new.attached /\ new.handler = OpNone
  BY DEF Gone, RegionState
<1>5. ASSUME above # {}
      PROVE  /\ n \in 1 .. Level(OpRegion[r].dev) /\ n \in 1 .. Len(OpDevice)
             /\ d \in Range(OpDevice) /\ Level(d) = n /\ d # OpNone /\ d # OpRemoved
             /\ find_handler(d, OpRegion[r].space) /\ NoneBetween(d, r)
  <2>1. n \in 1 .. Level(OpRegion[r].dev) /\ n \in 1 .. Len(OpDevice)
    BY <1>2, <1>3, <1>5, LevelProperties
  <2>2. d \in Range(OpDevice) /\ Level(d) = n
    BY <2>1, LevelProperties
  <2>3. ASSUME NEW i \in n + 1 .. Level(OpRegion[r].dev)
        PROVE  ~find_handler(OpDevice[i], OpRegion[r].space)
    <3>1. i \in 1 .. Level(OpRegion[r].dev) /\ ~(i <= n)
      BY <1>2, <2>1, LevelProperties
    <3> QED
      BY <1>3, <1>5, <3>1
  <2>4. d # OpNone /\ d # OpRemoved
    BY <2>2, OpAssumption
  <2> QED
    BY <1>3, <1>5, <2>1, <2>2, <2>3, <2>4 DEF NoneBetween
<1>6. flag \in BOOLEAN
  OBVIOUS
<1> HIDE DEF above, flag
<1>7. state \in RegionState /\ state.there /\ ~state.attached
      /\ IF above = {} THEN state.handler = OpNone ELSE state.handler = d
  BY <1>4, <1>5, <1>6 DEF RegionState
<1>8. region' \in [Regions -> RegionState] /\ region'[r] = state
      /\ \A q \in Regions : q # r => region'[q] = region[q]
  BY <1>1, <1>7 DEF OpIInv
<1> HIDE DEF state, d
<1>9. Served(r)'
  <2>1. CASE above = {}
    BY <1>7, <1>8, <2>1 DEF Served
  <2>2. CASE above # {}
    <3>1. Level(d) <= Level(OpRegion[r].dev)
      BY <1>2, <1>5, <2>2, LevelProperties
    <3> QED
      BY <1>1, <1>5, <1>7, <1>8, <2>2, <3>1 DEF Served, NoneBetween, find_handler
  <2> QED
    BY <2>1, <2>2
<1>10. ASSUME NEW q \in Regions, q # r PROVE Served(q)'
  BY <1>1, <1>8, <1>10 DEF OpIInv, Served, NoneBetween, find_handler
<1> QED
  BY <1>1, <1>8, <1>9, <1>10 DEF OpIInv, IoInBounds

LEMMA OpStep == OpIInv /\ [OpNext]_opVars => OpIInv'
<1> SUFFICES ASSUME OpIInv, [OpNext]_opVars PROVE OpIInv'
  OBVIOUS
<1>0. OpNone # OpRemoved
  BY DEF OpNone, OpRemoved
<1>1. ASSUME NEW d \in Range(OpDevice), NEW s \in OpSpace, uacpi_install_address_space_handler(d, s)
      PROVE  OpIInv'
  BY <1>1, InstallStep
<1>2. ASSUME NEW d \in Range(OpDevice), NEW s \in OpSpace, uacpi_uninstall_address_space_handler(d, s)
      PROVE  OpIInv'
  BY <1>2, UninstallStep
<1>3. ASSUME NEW d \in Range(OpDevice), NEW s \in OpSpace, uacpi_reg_all_opregions(d, s)
      PROVE  OpIInv'
  <2> DEFINE Q == reg_or_unreg_all_opregions(region, d, s, TRUE)
  <2>1. SameButReg(Q, region)
    BY RegKeeps DEF OpIInv
  <2>2. region' = Q /\ handlersOf' = handlersOf /\ told' = told /\ io' = io
    BY <1>3 DEF uacpi_reg_all_opregions
  <2> HIDE DEF Q
  <2> QED
    BY <2>1, <2>2 DEF SameButReg, OpIInv, Served, NoneBetween, find_handler, IoInBounds
<1>4. ASSUME NEW r \in Regions, uacpi_initialize_opregion_node(r) PROVE OpIInv'
  BY <1>4, NewRegionStep
<1>5. ASSUME NEW r \in Regions, uacpi_opregion_uninstall_handler(r) PROVE OpIInv'
  <2>1. /\ region' = [region EXCEPT ![r] = Gone] /\ told' = [told EXCEPT ![r] = OpNone]
        /\ handlersOf' = handlersOf /\ io' = io
    BY <1>5 DEF uacpi_opregion_uninstall_handler
  <2>2. Gone \in RegionState /\ Gone.handler = OpNone /\ ~Gone.attached
    BY DEF Gone, RegionState
  <2>3. /\ region' \in [Regions -> RegionState] /\ region'[r] = Gone
        /\ \A q \in Regions : q # r => region'[q] = region[q] /\ told'[q] = told[q]
    BY <2>1, <2>2 DEF OpIInv
  <2> QED
    BY <2>1, <2>2, <2>3 DEF OpIInv, Served, NoneBetween, find_handler, IoInBounds
<1>6. ASSUME NEW r \in Regions, NEW o \in OpWidth, NEW w \in OpWidth \ {0}, NEW a \in BOOLEAN,
             uacpi_dispatch_opregion_io(r, o, w, a)
      PROVE  OpIInv'
  <2>1. IoInBounds'
    BY <1>6 DEF uacpi_dispatch_opregion_io, InBounds, NoIo, IoInBounds
  <2>2. handlersOf' = handlersOf /\ region[r].handler # OpNone
    BY <1>6 DEF uacpi_dispatch_opregion_io
  <2>3. CASE UNCHANGED <<region, told>>
    BY <2>1, <2>2, <2>3 DEF OpIInv, Served, NoneBetween, find_handler
  <2>4. CASE /\ region' = [region EXCEPT ![r].attached = TRUE]
             /\ told' = [told EXCEPT ![r] = region[r].handler]
    <3>1. /\ region' \in [Regions -> RegionState]
          /\ region'[r].handler = region[r].handler /\ region'[r].there = region[r].there
          /\ \A q \in Regions : q # r => region'[q] = region[q] /\ told'[q] = told[q]
      <4>1. region[r] \in RegionState
        BY DEF OpIInv
      <4>2. /\ [region[r] EXCEPT !.attached = TRUE] \in RegionState
            /\ [region[r] EXCEPT !.attached = TRUE].handler = region[r].handler
            /\ [region[r] EXCEPT !.attached = TRUE].there = region[r].there
        BY <4>1 DEF RegionState
      <4>3. region' = [region EXCEPT ![r] = [region[r] EXCEPT !.attached = TRUE]]
        BY <2>4
      <4> QED
        BY <2>4, <4>2, <4>3 DEF OpIInv
    <3>2. Served(r)'
      <4>1. told'[r] = region[r].handler
        BY <2>4 DEF OpIInv
      <4> QED
        BY <2>2, <3>1, <4>1 DEF OpIInv, Served, NoneBetween, find_handler
    <3>3. \A q \in Regions : q # r => Served(q)'
      BY <2>2, <3>1 DEF OpIInv, Served, NoneBetween, find_handler
    <3>4. DOMAIN told' = Regions
      BY <2>4 DEF OpIInv
    <3> QED
      BY <2>1, <2>2, <3>1, <3>2, <3>3, <3>4 DEF OpIInv
  <2> QED
    BY <1>6, <2>3, <2>4 DEF uacpi_dispatch_opregion_io, uacpi_opregion_attach
<1>7. CASE NamespaceLoads
  BY <1>7 DEF NamespaceLoads, OpIInv, Served, NoneBetween, find_handler, IoInBounds
<1>8. CASE UNCHANGED opVars
  BY <1>8 DEF opVars, OpIInv, Served, NoneBetween, find_handler, IoInBounds
<1> QED
  BY <1>1, <1>2, <1>3, <1>4, <1>5, <1>6, <1>7, <1>8 DEF OpNext

\* For any tree of devices in a chain, any handlers and any regions: what serves a
\* permanent region is installed on a device above it, what is attached was accepted
\* by its handler, and I/O stays in the region (opregion.c).
THEOREM RegionsHaveHandlers == OpInit /\ [][OpNext]_opVars => []RegionsAreServed
<1>1. OpInit => OpIInv
  BY EmptySeq DEF OpInit, OpIInv, Served, IoInBounds, NoIo, Gone, RegionState
<1>2. OpIInv => RegionsAreServed
  BY DEF OpIInv, Served, IoInBounds, RegionsAreServed
<1> QED
  BY <1>1, <1>2, OpStep, PTL

(***************************************************************************)
(* _OSI.  The list has every name once, so what is enabled and what is     *)
(* found first are the same entry.                                         *)
(***************************************************************************)
OsiEntry ==
    [name : OsiNames, kind : Kinds, host : {OsiPredefined[i].host : i \in DOMAIN OsiPredefined} \cup {0},
     weight : {OsiPredefined[i].weight : i \in DOMAIN OsiPredefined} \cup {0},
     disabled : BOOLEAN, dynamic : BOOLEAN]

NamedOnce ==
    \A i, j \in 1 .. Len(interfaces) : interfaces[i].name = interfaces[j].name => i = j

OsiIInv ==
    /\ interfaces \in Seq(OsiEntry)
    /\ NamedOnce
    /\ \A n \in offered : \E i \in 1 .. Len(interfaces) : interfaces[i].name = n
    /\ \A i \in 1 .. Len(interfaces) : interfaces[i].name \in offered <=> ~interfaces[i].disabled

\* The table itself is such a list, and the features in it are not offered.
TableIsSound(L, names) ==
    /\ L \in Seq(OsiEntry)
    /\ \A i, j \in 1 .. Len(L) : L[i].name = L[j].name => i = j
    /\ \A n \in names : \E i \in 1 .. Len(L) : L[i].name = n
    /\ \A i \in 1 .. Len(L) : L[i].name \in names <=> ~L[i].disabled

LEMMA PredefinedIsSound ==
    TableIsSound(Predefined0, {Predefined0[i].name : i \in {j \in DOMAIN Predefined0 : ~Predefined0[j].disabled}})
<1> DEFINE n == Len(OsiPredefined)
           off(i) == OsiPredefined[i].kind = "feature"
<1>1. DOMAIN OsiPredefined = 1 .. n /\ n \in Nat
  BY OsiAssumption
<1> HIDE DEF n
<1>2. ASSUME NEW i \in 1 .. n
      PROVE  Predefined0[i] \in OsiEntry /\ Predefined0[i].name = OsiPredefined[i].name
  <2>1. off(i) \in BOOLEAN
    OBVIOUS
  <2>2. Predefined0[i] = [name |-> OsiPredefined[i].name, kind |-> OsiPredefined[i].kind,
                          host |-> OsiPredefined[i].host, weight |-> OsiPredefined[i].weight,
                          disabled |-> off(i), dynamic |-> FALSE]
    BY <1>1 DEF Predefined0
  <2> HIDE DEF off
  <2>3. /\ OsiPredefined[i].name \in OsiNames /\ OsiPredefined[i].kind \in Kinds
    BY <1>1, OsiAssumption DEF OsiNames
  <2> QED
    BY <1>1, <2>1, <2>2, <2>3 DEF OsiEntry
<1>3. Predefined0 \in Seq(OsiEntry) /\ Len(Predefined0) = n /\ DOMAIN Predefined0 = 1 .. n
  <2>1. DOMAIN Predefined0 = 1 .. n /\ Predefined0 = [i \in 1 .. n |-> Predefined0[i]]
    BY <1>1 DEF Predefined0
  <2> QED
    BY <1>1, <1>2, <2>1
<1>4. \A i, j \in 1 .. n : Predefined0[i].name = Predefined0[j].name => i = j
  BY <1>1, <1>2, OsiAssumption
<1> QED
  BY <1>3, <1>4 DEF TableIsSound

LEMMA FoundInterface ==
    ASSUME OsiIInv, NEW name
    PROVE  LET i == find_interface_unlocked(name)
           IN  \/ i = 0 /\ \A j \in 1 .. Len(interfaces) : interfaces[j].name # name
               \/ i # 0 /\ i \in 1 .. Len(interfaces) /\ interfaces[i].name = name
<1> DEFINE at == {i \in DOMAIN interfaces : interfaces[i].name = name}
<1>1. DOMAIN interfaces = 1 .. Len(interfaces) /\ Len(interfaces) \in Nat
  BY LenProperties DEF OsiIInv
<1>2. CASE at = {}
  BY <1>1, <1>2 DEF find_interface_unlocked
<1>3. CASE at # {}
  <2>1. PICK k \in at : TRUE
    BY <1>3
  <2>2. \A j \in at : j = k /\ k <= j
    BY <1>1, <2>1 DEF OsiIInv, NamedOnce
  <2>3. (CHOOSE i \in at : \A j \in at : i <= j) \in at
    BY <2>1, <2>2
  <2>4. find_interface_unlocked(name) \in at
    BY <1>3, <2>3 DEF find_interface_unlocked
  <2> QED
    BY <1>1, <2>4
<1> QED
  BY <1>2, <1>3

LEMMA FoundHost ==
    ASSUME OsiIInv, NEW type, find_host_interface_unlocked(type) # 0
    PROVE  find_host_interface_unlocked(type) \in 1 .. Len(interfaces)
<1> DEFINE at == {i \in DOMAIN interfaces : interfaces[i].host = type}
<1>1. DOMAIN interfaces = 1 .. Len(interfaces) /\ Len(interfaces) \in Nat
  BY LenProperties DEF OsiIInv
<1>2. at # {}
  BY DEF find_host_interface_unlocked
<1>3. \E x \in at : \A y \in at : x <= y
  <2>1. at \subseteq Nat
    BY <1>1
  <2>2. PICK x \in at : \A y \in at : ~(<<y, x>> \in OpToRel(<, Nat))
    BY <1>2, <2>1, NatLessThanWellFounded, WFMin, Zenon
  <2>3. x \in Nat /\ \A y \in at : y \in Nat /\ ~(y < x)
    BY <2>1, <2>2 DEF OpToRel
  <2> HIDE DEF at
  <2>4. \A y \in at : x <= y
    BY <2>3
  <2> QED
    BY <2>4
<1>4. (CHOOSE i \in at : \A j \in at : i <= j) \in at
  BY <1>3
<1>5. find_host_interface_unlocked(type) \in at
  BY <1>2, <1>4 DEF find_host_interface_unlocked
<1> QED
  BY <1>1, <1>5

\* Entries are enabled or disabled, and the host knows it.
Switched(L, M, hit, on) ==
    /\ M \in Seq(OsiEntry) /\ Len(M) = Len(L)
    /\ \A i \in 1 .. Len(L) : /\ M[i].name = L[i].name
                              /\ i \in hit => M[i].disabled = ~on
                              /\ i \notin hit => M[i].disabled = L[i].disabled

LEMMA SwitchStep ==
    ASSUME OsiIInv, NEW hit, hit \subseteq 1 .. Len(interfaces), NEW on \in BOOLEAN,
           Switched(interfaces, interfaces', hit, on),
           offered' = IF on THEN offered \cup {interfaces[i].name : i \in hit}
                      ELSE offered \ {interfaces[i].name : i \in hit}
    PROVE  OsiIInv'
<1>1. NamedOnce'
  BY DEF OsiIInv, Switched, NamedOnce
<1>2. ASSUME NEW n \in offered' PROVE \E i \in 1 .. Len(interfaces') : interfaces'[i].name = n
  <2>1. n \in offered \/ \E i \in hit : n = interfaces[i].name
    OBVIOUS
  <2>2. \E i \in 1 .. Len(interfaces) : interfaces[i].name = n
    BY <2>1 DEF OsiIInv
  <2> QED
    BY <2>2 DEF Switched
<1>3. ASSUME NEW i \in 1 .. Len(interfaces)
      PROVE  interfaces'[i].name \in offered' <=> ~interfaces'[i].disabled
  <2>1. interfaces'[i].name = interfaces[i].name
    BY DEF Switched
  <2>2. (interfaces[i].name \in {interfaces[j].name : j \in hit}) <=> i \in hit
    BY DEF OsiIInv, NamedOnce
  <2>3. CASE i \in hit /\ on
    BY <2>1, <2>2, <2>3 DEF Switched
  <2>4. CASE i \in hit /\ ~on
    BY <2>1, <2>2, <2>4 DEF Switched
  <2>5. CASE i \notin hit
    BY <2>1, <2>2, <2>5 DEF Switched, OsiIInv
  <2> QED
    BY <2>3, <2>4, <2>5
<1> QED
  BY <1>1, <1>2, <1>3 DEF OsiIInv, Switched

LEMMA SwitchOne ==
    ASSUME NEW L \in Seq(OsiEntry), NEW i \in 1 .. Len(L), NEW on \in BOOLEAN
    PROVE  Switched(L, [L EXCEPT ![i].disabled = ~on], {i}, on)
<1> DEFINE e == [L[i] EXCEPT !.disabled = ~on]
           M == [L EXCEPT ![i] = e]
<1>1. L[i] \in OsiEntry /\ Len(L) \in Nat /\ DOMAIN L = 1 .. Len(L)
  BY ElementOfSeq, LenProperties
<1>2. (~on) \in BOOLEAN
  OBVIOUS
<1>3. e \in OsiEntry /\ e.name = L[i].name /\ e.disabled = ~on
  BY <1>1, <1>2, Zenon DEF OsiEntry
<1>4. M \in Seq(OsiEntry) /\ Len(M) = Len(L) /\ M[i] = e /\ \A j \in 1 .. Len(L) : j # i => M[j] = L[j]
  <2> HIDE DEF e
  <2> QED
    BY <1>1, <1>3, ExceptSeq
<1>5. [L EXCEPT ![i].disabled = ~on] = M
  OBVIOUS
<1> HIDE DEF e, M
<1> QED
  BY <1>3, <1>4, <1>5, SMTT(30) DEF Switched

LEMMA OsiStep == OsiIInv /\ [OsiNext]_osiVars => OsiIInv'
<1> SUFFICES ASSUME OsiIInv, [OsiNext]_osiVars PROVE OsiIInv'
  OBVIOUS
<1>0. Len(interfaces) \in Nat /\ DOMAIN interfaces = 1 .. Len(interfaces) /\ interfaces \in Seq(OsiEntry)
  BY LenProperties DEF OsiIInv
<1>1. ASSUME NEW n \in OsiNames, NEW k \in Kinds \ {"none"}, uacpi_install_interface(n, k)
      PROVE  OsiIInv'
  <2> DEFINE i == find_interface_unlocked(n)
             new == [name |-> n, kind |-> k, host |-> 0, weight |-> 0,
                     disabled |-> FALSE, dynamic |-> TRUE]
  <2>1. /\ interfaces' = IF i # 0 THEN [interfaces EXCEPT ![i].disabled = FALSE] ELSE <<new>> \o interfaces
        /\ offered' = offered \cup {n}
    BY <1>1 DEF uacpi_install_interface
  <2>2. \/ i = 0 /\ \A j \in 1 .. Len(interfaces) : interfaces[j].name # n
        \/ i # 0 /\ i \in 1 .. Len(interfaces) /\ interfaces[i].name = n
    BY FoundInterface
  <2>3. new \in OsiEntry /\ new.name = n /\ ~new.disabled
    BY DEF OsiEntry
  <2> HIDE DEF i, new
  <2>4. CASE i # 0
    <3>1. Switched(interfaces, [interfaces EXCEPT ![i].disabled = ~TRUE], {i}, TRUE)
      BY <1>0, <2>2, <2>4, SwitchOne
    <3>2. interfaces' = [interfaces EXCEPT ![i].disabled = ~TRUE]
      BY <2>1, <2>4
    <3>3. offered' = IF TRUE THEN offered \cup {interfaces[j].name : j \in {i}}
                     ELSE offered \ {interfaces[j].name : j \in {i}}
      BY <2>1, <2>2, <2>4
    <3>4. {i} \subseteq 1 .. Len(interfaces)
      BY <2>2, <2>4
    <3> QED
      BY <3>1, <3>2, <3>3, <3>4, SwitchStep
  <2>5. CASE i = 0
    <3>1. /\ interfaces' \in Seq(OsiEntry) /\ Len(interfaces') = Len(interfaces) + 1 /\ interfaces'[1] = new
          /\ \A j \in 2 .. Len(interfaces) + 1 : interfaces'[j] = interfaces[j - 1]
      BY <1>0, <2>1, <2>3, <2>5, ConsProperties
    <3>2. \A j \in 2 .. Len(interfaces) + 1 : j - 1 \in 1 .. Len(interfaces) /\ interfaces'[j].name # n
      BY <1>0, <2>2, <2>5, <3>1
    <3>3. \A j \in 1 .. Len(interfaces') : j = 1 \/ j \in 2 .. Len(interfaces) + 1
      BY <1>0, <3>1
    <3>4. NamedOnce'
      <4>1. ASSUME NEW j \in 2 .. Len(interfaces) + 1, NEW l \in 2 .. Len(interfaces) + 1,
                   interfaces'[j].name = interfaces'[l].name
            PROVE  j = l
        <5>1. interfaces[j - 1].name = interfaces[l - 1].name /\ j - 1 \in 1 .. Len(interfaces)
              /\ l - 1 \in 1 .. Len(interfaces)
          BY <3>1, <3>2, <4>1
        <5>2. j - 1 = l - 1
          BY <5>1 DEF OsiIInv, NamedOnce
        <5> QED
          BY <1>0, <5>2
      <4> QED
        BY <2>3, <3>1, <3>2, <3>3, <4>1 DEF NamedOnce
    <3>5. ASSUME NEW m \in offered' PROVE \E j \in 1 .. Len(interfaces') : interfaces'[j].name = m
      <4>1. CASE m = n
        BY <1>0, <2>3, <3>1, <4>1
      <4>2. CASE m \in offered
        <5>1. PICK j \in 1 .. Len(interfaces) : interfaces[j].name = m
          BY <4>2 DEF OsiIInv
        <5>2. j + 1 \in 2 .. Len(interfaces) + 1 /\ j + 1 \in 1 .. Len(interfaces') /\ (j + 1) - 1 = j
          BY <1>0, <3>1
        <5> QED
          BY <3>1, <5>1, <5>2
      <4> QED
        BY <2>1, <4>1, <4>2
    <3>6. ASSUME NEW j \in 2 .. Len(interfaces) + 1
          PROVE  interfaces'[j].name \in offered' <=> ~interfaces'[j].disabled
      BY <2>1, <3>1, <3>2 DEF OsiIInv
    <3>7. \A j \in 1 .. Len(interfaces') : interfaces'[j].name \in offered' <=> ~interfaces'[j].disabled
      <4>1. interfaces'[1].name \in offered' /\ ~interfaces'[1].disabled
        BY <2>1, <2>3, <3>1
      <4> QED
        BY <3>3, <3>6, <4>1
    <3> QED
      BY <3>1, <3>4, <3>5, <3>7 DEF OsiIInv
  <2> QED
    BY <2>4, <2>5
<1>2. ASSUME NEW n \in OsiNames, uacpi_uninstall_interface(n) PROVE OsiIInv'
  <2> DEFINE i == find_interface_unlocked(n)
             cut == RemoveAt(interfaces, i)
  <2>1. /\ interfaces' = IF i = 0 THEN interfaces
                         ELSE IF interfaces[i].dynamic THEN cut
                         ELSE [interfaces EXCEPT ![i].disabled = TRUE]
        /\ offered' = offered \ {n}
    BY <1>2 DEF uacpi_uninstall_interface
  <2>2. \/ i = 0 /\ \A j \in 1 .. Len(interfaces) : interfaces[j].name # n
        \/ i # 0 /\ i \in 1 .. Len(interfaces) /\ interfaces[i].name = n
    BY FoundInterface
  <2> HIDE DEF i
  <2>3. CASE i = 0
    BY <2>1, <2>2, <2>3 DEF OsiIInv, NamedOnce
  <2>4. CASE i # 0 /\ ~interfaces[i].dynamic
    <3>1. Switched(interfaces, [interfaces EXCEPT ![i].disabled = ~FALSE], {i}, FALSE)
      BY <1>0, <2>2, <2>4, SwitchOne
    <3>2. interfaces' = [interfaces EXCEPT ![i].disabled = ~FALSE]
      BY <2>1, <2>4
    <3>3. offered' = IF FALSE THEN offered \cup {interfaces[j].name : j \in {i}}
                     ELSE offered \ {interfaces[j].name : j \in {i}}
      BY <2>1, <2>2, <2>4
    <3>4. {i} \subseteq 1 .. Len(interfaces)
      BY <2>2, <2>4
    <3> QED
      BY <3>1, <3>2, <3>3, <3>4, SwitchStep
  <2>5. CASE i # 0 /\ interfaces[i].dynamic
    <3>1. /\ cut \in Seq(OsiEntry) /\ Len(cut) = Len(interfaces) - 1
          /\ \A j \in 1 .. Len(interfaces) - 1 :
               cut[j] = IF j < i THEN interfaces[j] ELSE interfaces[j + 1]
      BY <1>0, <2>2, <2>5, RemoveAtProperties
    <3>2. interfaces' = cut
      BY <2>1, <2>5
    <3> HIDE DEF cut
    <3> DEFINE old(j) == IF j < i THEN j ELSE j + 1
    <3>3. \A j \in 1 .. Len(cut) : /\ old(j) \in 1 .. Len(interfaces) /\ old(j) # i
                                   /\ cut[j] = interfaces[old(j)]
      <4>1. Len(interfaces) \in Nat /\ i \in 1 .. Len(interfaces)
        BY <1>0, <2>2, <2>5, LenProperties
      <4>2. \A j \in 1 .. Len(cut) : old(j) \in 1 .. Len(interfaces) /\ old(j) # i
        BY <3>1, <4>1
      <4>3. \A j \in 1 .. Len(cut) : cut[j] = interfaces[old(j)]
        BY <3>1, <4>1
      <4> QED
        BY <4>2, <4>3
    <3>4. \A j, l \in 1 .. Len(cut) : old(j) = old(l) => j = l
      BY <1>0, <2>2, <2>5, <3>1
    <3>5. \A k \in 1 .. Len(interfaces) : k # i => \E j \in 1 .. Len(cut) : old(j) = k
      <4> SUFFICES ASSUME NEW k \in 1 .. Len(interfaces), k # i
                   PROVE  \E j \in 1 .. Len(cut) : old(j) = k
        OBVIOUS
      <4>1. CASE k < i
        BY <1>0, <2>2, <2>5, <3>1, <4>1
      <4>2. CASE k > i
        <5>1. k - 1 \in 1 .. Len(cut) /\ ~(k - 1 < i) /\ (k - 1) + 1 = k
          BY <1>0, <2>2, <2>5, <3>1, <4>2
        <5> QED
          BY <5>1
      <4> QED
        BY <2>2, <2>5, <4>1, <4>2
    <3> HIDE DEF old
    <3>6. NamedOnce'
      BY <3>2, <3>3, <3>4 DEF OsiIInv, NamedOnce
    <3>7. ASSUME NEW m \in offered' PROVE \E j \in 1 .. Len(cut) : cut[j].name = m
      <4>1. m \in offered /\ m # n
        BY <2>1
      <4>2. PICK k \in 1 .. Len(interfaces) : interfaces[k].name = m
        BY <4>1 DEF OsiIInv
      <4> QED
        BY <2>2, <2>5, <3>3, <3>5, <4>1, <4>2
    <3>8. ASSUME NEW j \in 1 .. Len(cut) PROVE cut[j].name \in offered' <=> ~cut[j].disabled
      <4>1. interfaces[old(j)].name # n
        BY <2>2, <2>5, <3>3 DEF OsiIInv, NamedOnce
      <4> QED
        BY <2>1, <3>3, <4>1 DEF OsiIInv
    <3> QED
      BY <3>1, <3>2, <3>6, <3>7, <3>8, SMTT(30) DEF OsiIInv
  <2> QED
    BY <2>3, <2>4, <2>5
<1>3. ASSUME NEW n \in OsiNames, uacpi_handle_osi(n) PROVE OsiIInv'
  BY <1>3 DEF uacpi_handle_osi, OsiIInv, NamedOnce
<1>4. ASSUME NEW type, NEW on \in BOOLEAN, configure_host_interface(type, on) PROVE OsiIInv'
  <2> DEFINE i == find_host_interface_unlocked(type)
  <2>1. /\ i # 0 /\ interfaces' = [interfaces EXCEPT ![i].disabled = ~on]
        /\ offered' = IF on THEN offered \cup {interfaces[i].name} ELSE offered \ {interfaces[i].name}
    BY <1>4 DEF configure_host_interface
  <2>2. i \in 1 .. Len(interfaces)
    BY <2>1, FoundHost
  <2> HIDE DEF i
  <2>3. Switched(interfaces, [interfaces EXCEPT ![i].disabled = ~on], {i}, on)
    BY <1>0, <2>2, SwitchOne
  <2>4. {interfaces[j].name : j \in {i}} = {interfaces[i].name} /\ {i} \subseteq 1 .. Len(interfaces)
    BY <2>2
  <2> QED
    BY <2>1, <2>3, <2>4, SwitchStep
<1>5. ASSUME NEW h, uacpi_set_interface_query_handler(h) PROVE OsiIInv'
  BY <1>5 DEF uacpi_set_interface_query_handler, OsiIInv, NamedOnce
<1>6. ASSUME NEW on \in BOOLEAN, NEW kinds, uacpi_bulk_configure_interfaces(on, kinds) PROVE OsiIInv'
  <2> DEFINE hit == {i \in DOMAIN interfaces : interfaces[i].kind \in kinds}
             M == [i \in DOMAIN interfaces |->
                     IF i \in hit THEN [interfaces[i] EXCEPT !.disabled = ~on] ELSE interfaces[i]]
  <2>1. /\ interfaces' = M
        /\ offered' = IF on THEN offered \cup {interfaces[i].name : i \in hit}
                      ELSE offered \ {interfaces[i].name : i \in hit}
    BY <1>6 DEF uacpi_bulk_configure_interfaces
  <2>2. (~on) \in BOOLEAN /\ hit \subseteq 1 .. Len(interfaces)
    BY <1>0
  <2>3. ASSUME NEW i \in 1 .. Len(interfaces)
        PROVE  /\ M[i] \in OsiEntry /\ M[i].name = interfaces[i].name
               /\ i \in hit => M[i].disabled = ~on
               /\ i \notin hit => M[i].disabled = interfaces[i].disabled
    <3>1. interfaces[i] \in OsiEntry
      BY <1>0, ElementOfSeq
    <3> DEFINE e == [interfaces[i] EXCEPT !.disabled = ~on]
    <3>2. e \in OsiEntry /\ e.name = interfaces[i].name /\ e.disabled = ~on
      BY <2>2, <3>1, Zenon DEF OsiEntry
    <3>3. M[i] = IF i \in hit THEN e ELSE interfaces[i]
      BY <1>0
    <3> HIDE DEF e, M, hit
    <3> QED
      BY <3>1, <3>2, <3>3
  <2>4. M \in Seq(OsiEntry) /\ Len(M) = Len(interfaces)
    <3>1. DOMAIN M = 1 .. Len(interfaces)
      BY <1>0
    <3>2. M = [i \in 1 .. Len(interfaces) |-> M[i]]
      BY <1>0, <3>1
    <3> HIDE DEF M
    <3> QED
      BY <1>0, <2>3, <3>2
  <2> HIDE DEF M, hit
  <2>5. Switched(interfaces, interfaces', hit, on)
    BY <2>1, <2>3, <2>4 DEF Switched
  <2> QED
    BY <2>1, <2>2, <2>5, SwitchStep
<1>7. CASE uacpi_deinitialize_interfaces
  BY <1>7, PredefinedIsSound DEF uacpi_deinitialize_interfaces, OsiIInv, NamedOnce, TableIsSound
<1>8. CASE UNCHANGED osiVars
  BY <1>8 DEF osiVars, OsiIInv, NamedOnce
<1> QED
  BY <1>1, <1>2, <1>3, <1>4, <1>5, <1>6, <1>7, <1>8 DEF OsiNext

\* With any table of predefined interfaces and after any calls of the host: firmware is
\* told that an interface is supported exactly when the host last asked for it (osi.c).
THEOREM OsiAnswersAreTrue == OsiInit /\ [][OsiNext]_osiVars => []AnswersAsConfigured
<1>1. OsiInit => OsiIInv
  BY PredefinedIsSound DEF OsiInit, uacpi_initialize_interfaces, OsiIInv, NamedOnce, TableIsSound
<1>2. OsiIInv => AnswersAsConfigured
  <2> SUFFICES ASSUME OsiIInv, NEW n \in OsiNames PROVE is_supported(n) <=> n \in offered
    BY DEF AnswersAsConfigured
  <2>1. LET i == find_interface_unlocked(n)
        IN  \/ i = 0 /\ \A j \in 1 .. Len(interfaces) : interfaces[j].name # n
            \/ i # 0 /\ i \in 1 .. Len(interfaces) /\ interfaces[i].name = n
    BY FoundInterface
  <2> QED
    BY <2>1 DEF is_supported, OsiIInv
<1> QED
  BY <1>1, <1>2, OsiStep, PTL
(***************************************************************************)
(* Start-up.  A step of uacpi_initialize leaves up what comes before it in *)
(* the list of subsystems, and the walk has been told of every device      *)
(* above the one it is at that it may go on.                               *)
(***************************************************************************)
Answers == {"present", "functional", "absent", "error"}
Devs == Range(InitDevice)
Everything == Range(Subsystems) \cup {"handlers"}

Entered(S, e) == \A d \in Devs : e \in BelowDevice(d) => S[d] \notin {"unasked", "absent"}

LevelIInv ==
    /\ boot \in [level : Levels, at : Steps \cup Devs]
    /\ boot.level = "EARLY" => boot.at = Idle /\ up = {} /\ amlUp = {}
    /\ up \subseteq Everything
    /\ \A i \in 1 .. 7 : boot.at = Subsystems[i] => up = {Subsystems[j] : j \in 1 .. i - 1}
    /\ boot.level # "EARLY" /\ boot.at \notin Range(Subsystems) => up = Everything

WalkIInv ==
    /\ sta \in [Devs -> Answers \cup {"unasked"}]
    /\ ini \in Seq(Devs \cup {"root", "_SB"})
    /\ \A i, j \in 1 .. Len(ini) : i < j /\ ini[i] \in Devs /\ ini[j] \in Devs =>
          Position(ini[i]) < Position(ini[j])
    /\ \A i \in 1 .. Len(ini) : ini[i] \in Devs => Entered(sta, ini[i])
    /\ boot.at \in Devs =>
          /\ Entered(sta, boot.at)
          /\ \A i \in 1 .. Len(ini) : ini[i] \in Devs => Position(ini[i]) < Position(boot.at)

LEMMA PositionProperties ==
    /\ \A d \in Devs : Position(d) \in 1 .. Len(InitDevice) /\ InitDevice[Position(d)] = d
    /\ \A i \in 1 .. Len(InitDevice) : InitDevice[i] \in Devs /\ Position(InitDevice[i]) = i
    /\ Len(InitDevice) \in Nat /\ Len(InitDevice) > 0
<1>1. DOMAIN InitDevice = 1 .. Len(InitDevice) /\ Len(InitDevice) \in Nat
  BY InitAssumption, LenProperties
<1>2. Len(InitDevice) > 0
  BY <1>1, InitAssumption, EmptySeq
<1> QED
  BY <1>1, <1>2, InitAssumption DEF Position, Devs, Range

\* What is below a device follows it without a gap, and below is transitive.
LEMMA BelowIsARun ==
    /\ \A d, e \in Devs : e \in BelowDevice(d) => Position(d) < Position(e)
    /\ \A d, x, e \in Devs : /\ e \in BelowDevice(d)
                             /\ Position(d) < Position(x) /\ Position(x) <= Position(e)
                             => x \in BelowDevice(d)
    /\ \A a, b, c \in Devs : b \in BelowDevice(a) /\ c \in BelowDevice(b) => c \in BelowDevice(a)
<1> DEFINE Deeper(d, e) == /\ Position(d) < Position(e)
                           /\ \A j \in Position(d) + 1 .. Position(e) :
                                InitDepth[InitDevice[j]] > InitDepth[d]
<1>0. DOMAIN InitDevice = 1 .. Len(InitDevice)
  BY InitAssumption, LenProperties
<1>1. \A d, e \in Devs : e \in BelowDevice(d) <=> Deeper(d, e)
  BY <1>0, PositionProperties DEF BelowDevice
<1>2. ASSUME NEW d \in Devs, NEW x \in Devs, NEW e \in Devs, Deeper(d, e),
             Position(d) < Position(x), Position(x) <= Position(e)
      PROVE  Deeper(d, x)
  BY <1>2, PositionProperties
<1>3. ASSUME NEW a \in Devs, NEW b \in Devs, NEW c \in Devs, Deeper(a, b), Deeper(b, c)
      PROVE  Deeper(a, c)
  <2>1. Position(a) < Position(c)
    BY <1>3, PositionProperties
  <2>2. InitDepth[b] > InitDepth[a]
    <3>1. Position(b) \in Position(a) + 1 .. Position(b) /\ InitDevice[Position(b)] = b
      BY <1>3, PositionProperties
    <3> QED
      BY <1>3, <3>1
  <2>3. ASSUME NEW j \in Position(a) + 1 .. Position(c) PROVE InitDepth[InitDevice[j]] > InitDepth[a]
    <3>1. j \in 1 .. Len(InitDevice) /\ Position(b) \in Int
      BY PositionProperties
    <3>2. InitDepth[InitDevice[j]] \in Nat /\ InitDepth[a] \in Nat /\ InitDepth[b] \in Nat
      BY <3>1, PositionProperties, InitAssumption DEF Devs
    <3>3. CASE j <= Position(b)
      BY <1>3, <3>1, <3>3, PositionProperties
    <3>4. CASE j > Position(b)
      <4>1. j \in Position(b) + 1 .. Position(c)
        BY <3>1, <3>4, PositionProperties
      <4>2. InitDepth[InitDevice[j]] > InitDepth[b]
        BY <1>3, <4>1
      <4> QED
        BY <2>2, <3>2, <4>2
    <3> QED
      BY <3>1, <3>3, <3>4
  <2> QED
    BY <2>1, <2>3
<1> HIDE DEF Deeper
<1>4. \A d, e \in Devs : Deeper(d, e) => Position(d) < Position(e)
  BY DEF Deeper
<1> QED
  BY <1>1, <1>2, <1>3, <1>4

\* The walk goes to a device behind d; what it passes over is below d.
LEMMA WalkGoesOn ==
    ASSUME NEW d \in Devs, NEW deeper \in BOOLEAN, WalkNext(d, deeper) # "end"
    PROVE  /\ WalkNext(d, deeper) \in Devs /\ Position(d) < Position(WalkNext(d, deeper))
           /\ deeper \/ WalkNext(d, deeper) \notin BelowDevice(d)
           /\ \A x \in Devs : Position(d) < Position(x) /\ Position(x) < Position(WalkNext(d, deeper))
                                => ~deeper /\ x \in BelowDevice(d)
<1> DEFINE left == {i \in Position(d) + 1 .. Len(InitDevice) :
                      deeper \/ InitDevice[i] \notin BelowDevice(d)}
           n == CHOOSE i \in left : \A j \in left : i <= j
<1>1. left # {} /\ WalkNext(d, deeper) = InitDevice[n]
  BY DEF WalkNext
<1>2. left \subseteq Nat
  BY PositionProperties
<1>3. \E i \in left : \A j \in left : i <= j
  <2>1. PICK x \in left : \A y \in left : ~(<<y, x>> \in OpToRel(<, Nat))
    BY <1>1, <1>2, NatLessThanWellFounded, WFMin, Zenon
  <2>2. x \in Nat /\ \A y \in left : y \in Nat /\ ~(y < x)
    BY <1>2, <2>1 DEF OpToRel
  <2> HIDE DEF left
  <2>3. \A y \in left : x <= y
    BY <2>2
  <2> QED
    BY <2>3
<1>4. n \in left /\ \A j \in left : n <= j
  BY <1>3
<1> HIDE DEF n
<1>5. n \in 1 .. Len(InitDevice) /\ Position(d) < n /\ (deeper \/ InitDevice[n] \notin BelowDevice(d))
  BY <1>4, PositionProperties
<1>6. InitDevice[n] \in Devs /\ Position(InitDevice[n]) = n
  BY <1>5, PositionProperties
<1>7. ASSUME NEW x \in Devs, Position(d) < Position(x), Position(x) < n
      PROVE  ~deeper /\ x \in BelowDevice(d)
  <2>1. Position(x) \in Position(d) + 1 .. Len(InitDevice) /\ InitDevice[Position(x)] = x
        /\ ~(n <= Position(x))
    BY <1>5, <1>7, PositionProperties
  <2>2. Position(x) \notin left
    BY <1>4, <2>1
  <2> QED
    BY <2>1, <2>2
<1> QED
  BY <1>1, <1>5, <1>6, <1>7

LEMMA WalkStep ==
    ASSUME WalkIInv, NEW d \in Devs, NEW a \in Answers, do_sta_ini(d, a)
    PROVE  WalkIInv'
<1> DEFINE e == WalkNext(d, VisitsChildren(a))
<1>1. /\ boot.at = d /\ sta' = [sta EXCEPT ![d] = a] /\ boot'.at = e
      /\ ini' = IF a = "present" THEN Append(ini, d) ELSE ini
  BY DEF do_sta_ini
<1>2. /\ sta' \in [Devs -> Answers \cup {"unasked"}] /\ sta'[d] = a
      /\ \A x \in Devs : x # d => sta'[x] = sta[x]
  BY <1>1 DEF WalkIInv
<1>3. \A x \in Devs : Position(x) \in Int
  BY PositionProperties
\* An answer does not concern what the walk has met already.
<1>4. ASSUME NEW x \in Devs, Position(x) <= Position(d), Entered(sta, x) PROVE Entered(sta', x)
  <2>1. ASSUME NEW y \in Devs, x \in BelowDevice(y) PROVE sta'[y] \notin {"unasked", "absent"}
    <3>1. y # d
      BY <1>3, <1>4, <2>1, BelowIsARun
    <3> QED
      BY <1>2, <1>4, <2>1, <3>1 DEF Entered
  <2> QED
    BY <2>1 DEF Entered
<1>5. Entered(sta, d) /\ Len(ini) \in Nat
      /\ \A i \in 1 .. Len(ini) : ini[i] \in Devs => Position(ini[i]) < Position(d)
  BY <1>1, LenProperties DEF WalkIInv
<1>6. /\ ini' \in Seq(Devs \cup {"root", "_SB"}) /\ Len(ini') \in Nat
      /\ \A i \in 1 .. Len(ini') : \/ i \in 1 .. Len(ini) /\ ini'[i] = ini[i]
                                   \/ i = Len(ini) + 1 /\ ini'[i] = d
  <2>1. /\ Append(ini, d) \in Seq(Devs \cup {"root", "_SB"}) /\ Len(Append(ini, d)) = Len(ini) + 1
        /\ Append(ini, d)[Len(ini) + 1] = d
        /\ \A i \in 1 .. Len(ini) : Append(ini, d)[i] = ini[i]
    BY AppendProperties DEF WalkIInv
  <2> QED
    BY <1>1, <1>5, <2>1 DEF WalkIInv
<1>7. \A i \in 1 .. Len(ini') : ini'[i] \in Devs => Position(ini'[i]) <= Position(d) /\ Entered(sta', ini'[i])
  <2> SUFFICES ASSUME NEW i \in 1 .. Len(ini'), ini'[i] \in Devs
               PROVE  Position(ini'[i]) <= Position(d) /\ Entered(sta', ini'[i])
    OBVIOUS
  <2>1. CASE i \in 1 .. Len(ini) /\ ini'[i] = ini[i]
    <3>1. Entered(sta, ini[i]) /\ Position(ini[i]) < Position(d)
      BY <1>5, <2>1 DEF WalkIInv
    <3>2. Position(ini[i]) <= Position(d)
      BY <1>3, <2>1, <3>1
    <3> DEFINE x == ini[i]
    <3>3. x \in Devs /\ Entered(sta, x) /\ Position(x) <= Position(d) /\ ini'[i] = x
      BY <2>1, <3>1, <3>2
    <3> HIDE DEF x
    <3>4. \A y \in Devs : y = x => Entered(sta', y)
      BY <1>4, <3>3
    <3> QED
      BY <3>3, <3>4 DEF Entered
  <2>2. CASE ini'[i] = d
    <3>1. Position(d) <= Position(d)
      BY <1>3
    <3>2. Entered(sta', d)
      BY <1>4, <1>5, <3>1
    <3> QED
      BY <2>2, <3>1, <3>2 DEF Entered
  <2> QED
    BY <1>6, <2>1, <2>2
<1>8. ASSUME NEW i \in 1 .. Len(ini'), NEW j \in 1 .. Len(ini'), i < j,
             ini'[i] \in Devs, ini'[j] \in Devs
      PROVE  Position(ini'[i]) < Position(ini'[j])
  <2>1. CASE j \in 1 .. Len(ini) /\ ini'[j] = ini[j]
    <3>1. i \in 1 .. Len(ini) /\ ini'[i] = ini[i]
      BY <1>5, <1>6, <1>8, <2>1
    <3> QED
      BY <1>8, <2>1, <3>1 DEF WalkIInv
  <2>2. CASE j = Len(ini) + 1 /\ ini'[j] = d
    <3>1. i \in 1 .. Len(ini) /\ ini'[i] = ini[i]
      BY <1>5, <1>6, <1>8, <2>2
    <3> QED
      BY <1>5, <1>8, <2>2, <3>1
  <2> QED
    BY <1>6, <2>1, <2>2
<1>9. ASSUME e \in Devs
      PROVE  Entered(sta', e) /\ \A i \in 1 .. Len(ini') : ini'[i] \in Devs => Position(ini'[i]) < Position(e)
  <2> DEFINE deeper == VisitsChildren(a)
  <2>0. deeper \in BOOLEAN
    BY DEF VisitsChildren
  <2>1. e # "end"
    BY <1>9, InitAssumption DEF Devs, Steps
  <2>2. /\ Position(d) < Position(e) /\ (deeper \/ e \notin BelowDevice(d))
        /\ \A x \in Devs : Position(d) < Position(x) /\ Position(x) < Position(e)
                             => ~deeper /\ x \in BelowDevice(d)
    BY <2>0, <2>1, WalkGoesOn
  <2>3. deeper => a # "absent"
    BY DEF VisitsChildren
  <2> HIDE DEF deeper, e
  <2>4. ASSUME NEW y \in Devs, e \in BelowDevice(y) PROVE sta'[y] \notin {"unasked", "absent"}
    <3>1. Position(y) < Position(e)
      BY <1>9, <2>4, BelowIsARun
    <3>2. CASE y = d
      BY <1>2, <2>2, <2>3, <2>4, <3>2 DEF Answers
    <3>3. CASE Position(d) < Position(y)
      <4>1. ~deeper /\ y \in BelowDevice(d)
        BY <2>2, <3>1, <3>3
      <4>2. e \in BelowDevice(d)
        BY <1>9, <2>4, <4>1, BelowIsARun
      <4> QED
        BY <2>2, <4>1, <4>2
    <3>4. CASE Position(y) < Position(d)
      <4>1. Position(d) <= Position(e) /\ y # d
        BY <1>3, <1>9, <2>2, <3>4
      <4>2. d \in BelowDevice(y)
        BY <1>9, <2>4, <3>4, <4>1, BelowIsARun
      <4> QED
        BY <1>2, <1>5, <4>1, <4>2 DEF Entered
    <3>5. Position(y) = Position(d) => y = d
      BY PositionProperties
    <3> QED
      BY <1>3, <3>2, <3>3, <3>4, <3>5
  <2>5. Entered(sta', e)
    BY <2>4 DEF Entered, e
  <2> QED
    BY <1>3, <1>7, <1>9, <2>2, <2>5
<1> HIDE DEF e
<1> QED
  BY <1>1, <1>2, <1>6, <1>7, <1>8, <1>9 DEF WalkIInv, Entered

LEMMA SubsystemNames ==
    /\ DOMAIN Subsystems = 1 .. 7 /\ Len(Subsystems) = 7
    /\ Range(Subsystems) = {"tables", "registers", "events", "opregion", "interfaces", "namespace", "notify"}
    /\ \A i \in 1 .. 7 : Subsystems[i] \in Range(Subsystems)
    /\ \A i, j \in 1 .. 7 : Subsystems[i] = Subsystems[j] => i = j
<1>1. DOMAIN Subsystems = 1 .. 7 /\ Len(Subsystems) = 7
  BY DEF Subsystems
<1>2. \A i \in 1 .. 7 : i = 1 \/ i = 2 \/ i = 3 \/ i = 4 \/ i = 5 \/ i = 6 \/ i = 7
  OBVIOUS
<1>3. /\ Subsystems[1] = "tables" /\ Subsystems[2] = "registers" /\ Subsystems[3] = "events"
      /\ Subsystems[4] = "opregion" /\ Subsystems[5] = "interfaces" /\ Subsystems[6] = "namespace"
      /\ Subsystems[7] = "notify"
  BY DEF Subsystems
<1>4. Range(Subsystems) = {Subsystems[i] : i \in 1 .. 7}
  BY <1>1 DEF Range
<1>5. \A i, j \in 1 .. 7 : Subsystems[i] = Subsystems[j] => i = j
  BY <1>2, <1>3
<1>6. {Subsystems[i] : i \in 1 .. 7}
        = {"tables", "registers", "events", "opregion", "interfaces", "namespace", "notify"}
  BY <1>2, <1>3
<1> QED
  BY <1>1, <1>4, <1>5, <1>6

LEMMA ResetLevels == ASSUME LevelIInv, uacpi_state_reset PROVE LevelIInv' /\ WalkIInv'
<1>1. /\ up' = up \ Deinitialised /\ amlUp' = {} /\ sta' = Unasked /\ ini' = <<>>
      /\ boot' = [level |-> "EARLY", at |-> Idle]
  BY DEF uacpi_state_reset
<1>2. up' = {}
  BY <1>1, SubsystemNames DEF LevelIInv, Everything, Deinitialised
<1>3. Idle \notin Range(Subsystems) /\ Idle \in Steps
  BY SubsystemNames DEF Idle, Steps
<1>4. LevelIInv'
  BY <1>1, <1>2, <1>3, SubsystemNames DEF LevelIInv, Levels
<1>5. Idle \notin Devs
  BY <1>3, InitAssumption DEF Devs
<1>6. WalkIInv'
  BY <1>1, <1>5, EmptySeq DEF WalkIInv, Unasked, Devs
<1> QED
  BY <1>4, <1>6

\* A step that does not enter the walk.
LEMMA OutsideWalk ==
    ASSUME WalkIInv, UNCHANGED <<sta, ini>>, boot'.at \in Steps
    PROVE  WalkIInv'
<1>1. boot'.at \notin Devs
  BY InitAssumption DEF Devs
<1> QED
  BY <1>1 DEF WalkIInv, Entered

LEMMA StartStep == ASSUME LevelIInv, WalkIInv, [InitNext]_initVars PROVE LevelIInv' /\ WalkIInv'
<1>0. /\ Steps = Range(Subsystems) \cup {"idle", "load", "end"} /\ Idle = "idle"
      /\ Idle \notin Range(Subsystems) /\ "load" \notin Range(Subsystems) /\ "end" \notin Range(Subsystems)
      /\ \A d \in Devs : d \notin Steps
  BY SubsystemNames, InitAssumption DEF Steps, Idle, Devs
<1>1. CASE InitializeCall
  <2>1. /\ boot.level = "EARLY" /\ boot' = [level |-> "SUBSYSTEM_INITIALIZED", at |-> "tables"]
        /\ up' = up /\ UNCHANGED <<sta, ini>> /\ amlUp' = amlUp
    BY <1>1 DEF InitializeCall
  <2>2. Subsystems[1] = "tables" /\ "tables" \in Range(Subsystems) /\ 1 \in 1 .. 7
    BY SubsystemNames DEF Subsystems
  <2>3. \A i \in 1 .. 7 : Subsystems[i] = "tables" => i = 1
    BY <2>2, SubsystemNames
  <2>4. up' = {} /\ {Subsystems[j] : j \in 1 .. 1 - 1} = {}
    BY <2>1 DEF LevelIInv
  <2>5. LevelIInv'
    BY <1>0, <2>1, <2>2, <2>3, <2>4 DEF LevelIInv, Levels
  <2> QED
    BY <1>0, <2>1, <2>2, <2>5, OutsideWalk
<1>2. CASE InitializeStep
  <2>1. PICK i \in 1 .. 7 :
          /\ boot.at = Subsystems[i]
          /\ \/ /\ up' = up \cup {Subsystems[i]} \cup IF i = 7 THEN {"handlers"} ELSE {}
                /\ boot' = [boot EXCEPT !.at = IF i = 7 THEN Idle ELSE Subsystems[i + 1]]
                /\ UNCHANGED <<amlUp, sta, ini, method, eval>>
             \/ uacpi_state_reset
    BY <1>2, SubsystemNames DEF InitializeStep
  <2>2. CASE uacpi_state_reset
    BY <2>2, ResetLevels
  <2>3. CASE /\ up' = up \cup {Subsystems[i]} \cup IF i = 7 THEN {"handlers"} ELSE {}
             /\ boot' = [boot EXCEPT !.at = IF i = 7 THEN Idle ELSE Subsystems[i + 1]]
             /\ UNCHANGED <<amlUp, sta, ini, method, eval>>
    <3>1. boot.level # "EARLY" /\ up = {Subsystems[j] : j \in 1 .. i - 1}
          /\ boot'.level = boot.level /\ boot.level \in Levels
          /\ boot'.at = IF i = 7 THEN Idle ELSE Subsystems[i + 1]
      BY <1>0, <2>1, <2>3, SubsystemNames DEF LevelIInv
    <3>2. up \cup {Subsystems[i]} = {Subsystems[j] : j \in 1 .. i}
      BY <3>1
    <3>3. CASE i = 7
      <4>1. up' = Everything
        BY <2>3, <3>2, <3>3, SubsystemNames DEF Everything, Range
      <4>2. boot' = [boot EXCEPT !.at = Idle]
        BY <2>3, <3>3
      <4>3. \A k \in 1 .. 7 : Idle # Subsystems[k]
        BY <1>0, SubsystemNames
      <4>4. LevelIInv'
        BY <1>0, <3>1, <3>3, <4>1, <4>2, <4>3 DEF LevelIInv
      <4> QED
        BY <1>0, <2>3, <3>1, <3>3, <4>4, OutsideWalk
    <3>4. CASE i # 7
      <4>1. i + 1 \in 1 .. 7 /\ (i + 1) - 1 = i
        BY <3>4
      <4>2. up' = {Subsystems[j] : j \in 1 .. i}
        BY <2>3, <3>2, <3>4
      <4>3. boot' = [boot EXCEPT !.at = Subsystems[i + 1]] /\ Subsystems[i + 1] \in Range(Subsystems)
        BY <2>3, <3>4, <4>1, SubsystemNames
      <4>4. \A k \in 1 .. 7 : Subsystems[k] = Subsystems[i + 1] => k - 1 = i
        BY <4>1, SubsystemNames
      <4>5. up' \subseteq Everything
        BY <4>2, SubsystemNames DEF Everything
      <4>6. boot' \in [level : Levels, at : Steps \cup Devs] /\ boot'.at = Subsystems[i + 1]
        BY <1>0, <4>3 DEF LevelIInv
      <4>7. LevelIInv'
        BY <3>1, <4>2, <4>3, <4>4, <4>5, <4>6 DEF LevelIInv
      <4> QED
        BY <1>0, <2>3, <4>3, <4>6, <4>7, OutsideWalk
    <3> QED
      BY <3>3, <3>4
  <2> QED
    BY <2>1, <2>2, <2>3
<1>3. ASSUME NEW l \in Levels, NEW p \in Steps \ Range(Subsystems),
             boot.level # "EARLY", boot.at \notin Range(Subsystems),
             l # "EARLY", boot' = [level |-> l, at |-> p], UNCHANGED <<up, sta, ini>>
      PROVE  LevelIInv' /\ WalkIInv'
  <2>1. \A k \in 1 .. 7 : p # Subsystems[k]
    BY SubsystemNames
  <2>2. LevelIInv'
    BY <1>3, <2>1 DEF LevelIInv
  <2> QED
    BY <1>3, <2>2, OutsideWalk
<1>4. CASE LoadCall
  <2>1. CASE boot' = [boot EXCEPT !.at = "load"] /\ UNCHANGED <<up, sta, ini>>
    <3>1. boot' = [level |-> "SUBSYSTEM_INITIALIZED", at |-> "load"]
          /\ boot.level = "SUBSYSTEM_INITIALIZED" /\ boot.at = Idle
      BY <1>4, <2>1 DEF LoadCall
    <3> QED
      BY <1>0, <1>3, <2>1, <3>1 DEF Levels
  <2> QED
    BY <1>4, <2>1, ResetLevels DEF LoadCall
<1>5. CASE LoadTable
  <2>1. boot.at = "load" /\ UNCHANGED <<boot, up, sta, ini>>
    BY <1>5 DEF LoadTable
  <2>2. boot.level # "EARLY"
    BY <1>0, <2>1 DEF LevelIInv
  <2> QED
    BY <2>1, <2>2 DEF LevelIInv, WalkIInv, Entered
<1>6. CASE LoadEnds
  <2>1. boot.at = "load" /\ boot.level # "EARLY"
    BY <1>0, <1>6 DEF LevelIInv, LoadEnds
  <2>2. CASE boot' = [level |-> "NAMESPACE_LOADED", at |-> Idle] /\ UNCHANGED <<up, sta, ini>>
    BY <1>0, <1>3, <2>1, <2>2 DEF Levels
  <2> QED
    BY <1>6, <2>2, ResetLevels DEF LoadEnds
<1>7. CASE WalkCall
  <2> DEFINE d == InitDevice[1]
  <2>1. /\ boot.level = "NAMESPACE_LOADED" /\ boot.at = Idle
        /\ boot' = [level |-> "NAMESPACE_LOADED", at |-> d]
        /\ ini' = <<"root", "_SB">> /\ UNCHANGED <<up, sta>>
    BY <1>7 DEF WalkCall
  <2>2. d \in Devs /\ Position(d) = 1
    BY PositionProperties
  <2> HIDE DEF d
  <2>3. LevelIInv'
    <3>1. d \notin Range(Subsystems) /\ \A k \in 1 .. 7 : d # Subsystems[k]
      BY <1>0, <2>2, SubsystemNames
    <3> QED
      BY <1>0, <2>1, <2>2, <3>1 DEF LevelIInv, Levels
  <2>4. "root" \notin Devs /\ "_SB" \notin Devs
    BY InitAssumption DEF Devs
  <2>5. \A i \in 1 .. Len(ini') : ini'[i] \notin Devs
    BY <2>1, <2>4
  <2>6. ini' \in Seq(Devs \cup {"root", "_SB"})
    BY <2>1
  <2>7. Entered(sta, d)
    <3>1. \A y \in Devs : d \notin BelowDevice(y)
      <4> SUFFICES ASSUME NEW y \in Devs, d \in BelowDevice(y) PROVE FALSE
        OBVIOUS
      <4>1. Position(y) < Position(d) /\ Position(y) \in 1 .. Len(InitDevice)
        BY <2>2, BelowIsARun, PositionProperties
      <4> QED
        BY <2>2, <4>1, PositionProperties
    <3> QED
      BY <3>1 DEF Entered
  <2> QED
    BY <2>1, <2>3, <2>5, <2>6, <2>7 DEF WalkIInv, Entered
<1>8. ASSUME NEW d \in Devs, NEW a \in Answers, do_sta_ini(d, a) PROVE LevelIInv' /\ WalkIInv'
  <2> DEFINE e == WalkNext(d, VisitsChildren(a))
  <2>1. boot.at = d /\ boot' = [boot EXCEPT !.at = e] /\ UNCHANGED <<up, amlUp>>
    BY <1>8 DEF do_sta_ini
  <2>2. e \in Devs \cup {"end"}
    <3>1. VisitsChildren(a) \in BOOLEAN
      BY DEF VisitsChildren
    <3> QED
      BY <3>1, WalkGoesOn
  <2> HIDE DEF e
  <2>3. e \notin Range(Subsystems) /\ \A k \in 1 .. 7 : e # Subsystems[k]
    BY <1>0, <2>2, SubsystemNames
  <2>4. d \notin Range(Subsystems) /\ d # Idle
    BY <1>0
  <2>5. boot' \in [level : Levels, at : Steps \cup Devs] /\ boot'.at = e /\ boot'.level = boot.level
    BY <1>0, <2>1, <2>2 DEF LevelIInv
  <2>6. LevelIInv'
    BY <2>1, <2>3, <2>4, <2>5 DEF LevelIInv
  <2> QED
    BY <1>8, <2>6, WalkStep
<1>9. CASE WalkEnds
  <2>1. boot.at = "end" /\ boot.level # "EARLY"
    BY <1>0, <1>9 DEF LevelIInv, WalkEnds
  <2> QED
    BY <1>0, <1>3, <1>9, <2>1 DEF Levels, WalkEnds
<1>10. CASE Reset
  BY <1>10, ResetLevels DEF Reset
<1>11. CASE UNCHANGED <<boot, up, amlUp, sta, ini>>
  BY <1>11 DEF LevelIInv, WalkIInv, Entered
<1> QED
  BY <1>1, <1>2, <1>4, <1>5, <1>6, <1>7, <1>8, <1>9, <1>10, <1>11
     DEF InitNext, EvalResolve, EvalUnloads, EvalReturns, initVars, Answers, Devs

(***************************************************************************)
(* Evaluation.  A method is shared by its node and by every thread that    *)
(* evaluates it.                                                           *)
(***************************************************************************)
Evaluating(E, m) == {t \in Evaluator : E[t] = m}

Shares(M, E, m) == (IF M[m].node THEN 1 ELSE 0) + Cardinality(Evaluating(E, m))

MethodIInv ==
    /\ method \in [EvalMethod -> [node : BOOLEAN, refs : Int]]
    /\ eval \in [Evaluator -> EvalMethod \cup {"none"}]
    /\ \A m \in EvalMethod : method[m].refs = Shares(method, eval, m)

LEMMA EvaluatingIsFinite ==
    \A E, m : IsFiniteSet(Evaluating(E, m)) /\ Cardinality(Evaluating(E, m)) \in Nat
BY InitAssumption, FS_Subset, FS_CardinalityType DEF Evaluating

\* The node of a method comes or goes with its share.
LEMMA NodeStep ==
    ASSUME MethodIInv, eval' = eval,
           method' \in [EvalMethod -> [node : BOOLEAN, refs : Int]],
           \A m \in EvalMethod :
             method'[m].refs - (IF method'[m].node THEN 1 ELSE 0)
               = method[m].refs - (IF method[m].node THEN 1 ELSE 0)
    PROVE  MethodIInv'
<1>1. ASSUME NEW m \in EvalMethod PROVE method'[m].refs = Shares(method', eval, m)
  <2> DEFINE n == Cardinality(Evaluating(eval, m))
             new == IF method'[m].node THEN 1 ELSE 0
             old == IF method[m].node THEN 1 ELSE 0
  <2>1. n \in Nat
    BY EvaluatingIsFinite
  <2>2. new \in Int /\ old \in Int /\ method'[m].refs \in Int /\ method[m].refs \in Int
    BY DEF MethodIInv
  <2>3. method[m].refs = old + n
    BY DEF MethodIInv, Shares
  <2>4. method'[m].refs - new = method[m].refs - old
    OBVIOUS
  <2> HIDE DEF n, new, old
  <2>5. method'[m].refs = new + n
    BY <2>1, <2>2, <2>3, <2>4
  <2> QED
    BY <2>5 DEF Shares, n, new
<1> QED
  BY <1>1 DEF MethodIInv

\* A thread that begins or ends an evaluation takes or gives one share.
LEMMA ThreadCounts ==
    ASSUME NEW E \in [Evaluator -> EvalMethod \cup {"none"}], NEW t \in Evaluator,
           NEW m \in EvalMethod, E[t] # m
    PROVE  LET F == [E EXCEPT ![t] = m]
           IN  /\ Cardinality(Evaluating(F, m)) = Cardinality(Evaluating(E, m)) + 1
               /\ \A k \in EvalMethod : k # m /\ k # E[t] => Evaluating(F, k) = Evaluating(E, k)
<1> DEFINE F == [E EXCEPT ![t] = m]
<1>1. Evaluating(F, m) = Evaluating(E, m) \cup {t} /\ t \notin Evaluating(E, m)
  BY DEF Evaluating
<1>2. Cardinality(Evaluating(E, m) \cup {t}) = Cardinality(Evaluating(E, m)) + 1
  BY <1>1, EvaluatingIsFinite, FS_AddElement
<1>3. \A k \in EvalMethod : k # m /\ k # E[t] => Evaluating(F, k) = Evaluating(E, k)
  BY DEF Evaluating
<1> QED
  BY <1>1, <1>2, <1>3

LEMMA MethodStep == ASSUME MethodIInv, [InitNext]_initVars PROVE MethodIInv'
<1>1. CASE uacpi_state_reset
  <2>1. method' = NodesGone /\ eval' = eval
    BY <1>1 DEF uacpi_state_reset
  <2>2. ASSUME NEW m \in EvalMethod
        PROVE  /\ method'[m] = [node |-> FALSE, refs |-> method[m].refs - (IF method[m].node THEN 1 ELSE 0)]
               /\ method'[m] \in [node : BOOLEAN, refs : Int]
    BY <2>1 DEF NodesGone, MethodIInv
  <2>3. method' \in [EvalMethod -> [node : BOOLEAN, refs : Int]]
    BY <2>1, <2>2 DEF NodesGone
  <2>4. ASSUME NEW m \in EvalMethod
        PROVE  method'[m].refs - (IF method'[m].node THEN 1 ELSE 0)
                 = method[m].refs - (IF method[m].node THEN 1 ELSE 0)
    <3> DEFINE share == IF method[m].node THEN 1 ELSE 0
    <3>1. share \in Int /\ method[m].refs \in Int
      BY DEF MethodIInv
    <3>a. method'[m] = [node |-> FALSE, refs |-> method[m].refs - share]
      BY <2>2, Zenon
    <3> HIDE DEF share
    <3>2. method'[m].refs = method[m].refs - share /\ ~method'[m].node
      BY <3>a
    <3>3. method'[m].refs - 0 = method[m].refs - share
      BY <3>1, <3>2
    <3> QED
      BY <3>2, <3>3 DEF share
  <2> QED
    BY <2>1, <2>3, <2>4, NodeStep
<1>2. CASE LoadTable
  <2>1. PICK brought \in SUBSET {m \in EvalMethod : method[m].refs = 0} :
           method' = [m \in EvalMethod |-> IF m \in brought THEN [node |-> TRUE, refs |-> 1] ELSE method[m]]
    BY <1>2 DEF LoadTable
  <2>2. eval' = eval
    BY <1>2 DEF LoadTable
  <2>3. ASSUME NEW m \in brought PROVE method[m].refs = 0 /\ ~method[m].node /\ m \in EvalMethod
    <3>1. m \in EvalMethod /\ method[m].refs = 0 /\ method[m].refs = Shares(method, eval, m)
      BY DEF MethodIInv
    <3>2. Cardinality(Evaluating(eval, m)) \in Nat
      BY EvaluatingIsFinite
    <3> QED
      BY <3>1, <3>2 DEF Shares
  <2>4. method' \in [EvalMethod -> [node : BOOLEAN, refs : Int]]
    BY <2>1 DEF MethodIInv
  <2>5. ASSUME NEW m \in EvalMethod
        PROVE  method'[m].refs - (IF method'[m].node THEN 1 ELSE 0)
                 = method[m].refs - (IF method[m].node THEN 1 ELSE 0)
    <3>1. CASE m \in brought
      BY <2>1, <2>3, <3>1
    <3>2. CASE m \notin brought
      BY <2>1, <3>2
    <3> QED
      BY <3>1, <3>2
  <2> QED
    BY <2>2, <2>4, <2>5, NodeStep
<1>3. ASSUME NEW t \in Evaluator, NEW m \in EvalMethod, EvalResolve(t, m) PROVE MethodIInv'
  <2> DEFINE F == [eval EXCEPT ![t] = m]
  <2>1. /\ eval[t] = "none" /\ eval' = F
        /\ method' = [method EXCEPT ![m].refs = method[m].refs + 1]
    BY <1>3 DEF EvalResolve
  <2>2. "none" \notin EvalMethod
    BY InitAssumption
  <2>3. /\ Cardinality(Evaluating(F, m)) = Cardinality(Evaluating(eval, m)) + 1
        /\ \A k \in EvalMethod : k # m => Evaluating(F, k) = Evaluating(eval, k)
    BY <2>1, <2>2, ThreadCounts, ZenonT(60) DEF MethodIInv
  <2>4. F \in [Evaluator -> EvalMethod \cup {"none"}]
    BY DEF MethodIInv
  <2> HIDE DEF F
  <2>5. /\ method' \in [EvalMethod -> [node : BOOLEAN, refs : Int]]
        /\ method'[m].refs = method[m].refs + 1 /\ method'[m].node = method[m].node
        /\ \A k \in EvalMethod : k # m => method'[k] = method[k]
    BY <2>1 DEF MethodIInv
  <2>6. method'[m].refs = Shares(method', F, m)
    <3>1. method[m].refs = Shares(method, eval, m) /\ Cardinality(Evaluating(eval, m)) \in Nat
      BY EvaluatingIsFinite DEF MethodIInv
    <3> QED
      BY <2>3, <2>5, <3>1 DEF Shares
  <2>7. \A k \in EvalMethod : k # m => method'[k].refs = Shares(method', F, k)
    BY <2>3, <2>5 DEF Shares, MethodIInv
  <2> QED
    BY <2>1, <2>4, <2>5, <2>6, <2>7 DEF MethodIInv
<1>4. ASSUME NEW t \in Evaluator, NEW m \in EvalMethod, EvalUnloads(t, m) PROVE MethodIInv'
  <2>1. /\ method[m].node /\ eval' = eval
        /\ method' = [method EXCEPT ![m] = [node |-> FALSE, refs |-> method[m].refs - 1]]
    BY <1>4 DEF EvalUnloads
  <2>2. [node |-> FALSE, refs |-> method[m].refs - 1] \in [node : BOOLEAN, refs : Int]
    BY DEF MethodIInv
  <2>3. /\ method' \in [EvalMethod -> [node : BOOLEAN, refs : Int]]
        /\ method'[m].refs = method[m].refs - 1 /\ ~method'[m].node
        /\ \A k \in EvalMethod : k # m => method'[k] = method[k]
    BY <2>1, <2>2 DEF MethodIInv
  <2>4. ASSUME NEW k \in EvalMethod
        PROVE  method'[k].refs - (IF method'[k].node THEN 1 ELSE 0)
                 = method[k].refs - (IF method[k].node THEN 1 ELSE 0)
    <3>1. CASE k = m
      BY <2>1, <2>3, <3>1 DEF MethodIInv
    <3>2. CASE k # m
      BY <2>3, <3>2
    <3> QED
      BY <3>1, <3>2
  <2> QED
    BY <2>1, <2>3, <2>4, NodeStep
<1>5. ASSUME NEW t \in Evaluator, EvalReturns(t) PROVE MethodIInv'
  <2> DEFINE m == eval[t]
             F == [eval EXCEPT ![t] = "none"]
  <2>1. /\ m # "none" /\ eval' = F /\ method' = [method EXCEPT ![m].refs = method[m].refs - 1]
    BY <1>5 DEF EvalReturns
  <2>2. m \in EvalMethod
    BY <2>1 DEF MethodIInv
  <2>3. F \in [Evaluator -> EvalMethod \cup {"none"}] /\ F[t] = "none"
    BY DEF MethodIInv
  <2>4. /\ Cardinality(Evaluating(eval, m)) = Cardinality(Evaluating(F, m)) + 1
        /\ \A k \in EvalMethod : k # m => Evaluating(F, k) = Evaluating(eval, k)
    <3>1. [F EXCEPT ![t] = m] = eval
      BY DEF MethodIInv
    <3>2. "none" \notin EvalMethod
      BY InitAssumption
    <3> HIDE DEF F, m
    <3> QED
      BY <2>2, <2>3, <3>1, <3>2, ThreadCounts
  <2> HIDE DEF F, m
  <2>5. /\ method' \in [EvalMethod -> [node : BOOLEAN, refs : Int]]
        /\ method'[m].refs = method[m].refs - 1 /\ method'[m].node = method[m].node
        /\ \A k \in EvalMethod : k # m => method'[k] = method[k]
    BY <2>1, <2>2 DEF MethodIInv
  <2>6. method'[m].refs = Shares(method', F, m)
    <3>1. /\ method[m].refs = Shares(method, eval, m)
          /\ Cardinality(Evaluating(eval, m)) \in Nat /\ Cardinality(Evaluating(F, m)) \in Nat
      BY <2>2, EvaluatingIsFinite DEF MethodIInv
    <3> QED
      BY <2>4, <2>5, <3>1 DEF Shares
  <2>7. \A k \in EvalMethod : k # m => method'[k].refs = Shares(method', F, k)
    BY <2>4, <2>5 DEF Shares, MethodIInv
  <2> QED
    BY <2>1, <2>3, <2>5, <2>6, <2>7 DEF MethodIInv
<1>6. CASE UNCHANGED <<method, eval>>
  BY <1>6 DEF MethodIInv, Shares, Evaluating
<1> QED
  BY <1>1, <1>2, <1>3, <1>4, <1>5, <1>6
     DEF InitNext, initVars, InitializeCall, InitializeStep, LoadCall, LoadEnds, WalkCall,
         do_sta_ini, WalkEnds, Reset

\* For any tree of devices, any tables and any number of threads: a failed start leaves
\* nothing behind, _INI runs from the top down and never under an absent device, and a
\* method that is evaluated is not freed with its node (uacpi.c).
THEOREM StartUpIsSound == InitInit /\ [][InitNext]_initVars => []StartIsSound
<1> DEFINE IInv == LevelIInv /\ WalkIInv /\ MethodIInv
<1>1. ASSUME InitInit PROVE IInv
  <2>1. Idle \notin Devs /\ Idle \in Steps /\ Idle \notin Range(Subsystems)
    BY SubsystemNames, InitAssumption DEF Idle, Steps, Devs
  <2>2. LevelIInv
    BY <1>1, <2>1, SubsystemNames DEF InitInit, LevelIInv, Levels
  <2>3. WalkIInv
    BY <1>1, <2>1, EmptySeq DEF InitInit, WalkIInv, Unasked, Devs
  <2>4. \A m \in EvalMethod : Evaluating(eval, m) = {}
    BY <1>1, InitAssumption DEF InitInit, Evaluating
  <2>5. Cardinality({}) = 0
    BY FS_EmptySet
  <2>6. MethodIInv
    <3>1. NoMethod \in [node : BOOLEAN, refs : Int] /\ ~NoMethod.node /\ NoMethod.refs = 0
      BY DEF NoMethod
    <3>2. method = [m \in EvalMethod |-> NoMethod] /\ eval = [t \in Evaluator |-> "none"]
      BY <1>1 DEF InitInit
    <3> QED
      BY <2>4, <2>5, <3>1, <3>2 DEF MethodIInv, Shares
  <2> QED
    BY <2>2, <2>3, <2>6
<1>2. IInv /\ [InitNext]_initVars => IInv'
  BY StartStep, MethodStep
<1>3. ASSUME IInv PROVE StartIsSound
  <2>1. BootIsSound
    <3>1. boot.level = "EARLY" => up = {} /\ amlUp = {}
      BY <1>3 DEF LevelIInv
    <3>2. boot.level # "EARLY" /\ boot.at = Idle => up = Range(Subsystems) \cup {"handlers"}
      BY <1>3, SubsystemNames DEF LevelIInv, Everything, Idle
    <3>3. ASSUME NEW i \in DOMAIN ini, NEW d \in Range(InitDevice), ini[i] \in BelowDevice(d)
          PROVE  /\ sta[d] \notin {"unasked", "absent"}
                 /\ \A j \in DOMAIN ini : ini[j] = d => j < i
      <4>1. DOMAIN ini = 1 .. Len(ini) /\ Len(ini) \in Nat
        BY <1>3, LenProperties DEF WalkIInv
      <4>2. d \in Devs /\ ini[i] \in Devs
        BY <3>3, InitAssumption DEF Devs, BelowDevice, Range
      <4>3. Position(d) < Position(ini[i]) /\ Position(d) \in Int /\ Position(ini[i]) \in Int
        BY <3>3, <4>2, BelowIsARun, PositionProperties
      <4>4. ASSUME NEW j \in DOMAIN ini, ini[j] = d PROVE j < i
        <5>1. ~(i < j)
          BY <1>3, <4>1, <4>2, <4>3, <4>4 DEF WalkIInv
        <5>2. i # j
          BY <4>3, <4>4
        <5> QED
          BY <4>1, <5>1, <5>2
      <4> QED
        BY <1>3, <3>3, <4>1, <4>2, <4>4 DEF WalkIInv, Entered
    <3> QED
      BY <3>1, <3>2, <3>3 DEF BootIsSound
  <2>2. ASSUME NEW t \in Evaluator, eval[t] # "none" PROVE method[eval[t]].refs > 0
    <3> DEFINE m == eval[t]
    <3>1. m \in EvalMethod /\ method[m].refs = Shares(method, eval, m)
      BY <1>3, <2>2 DEF MethodIInv
    <3>2. Evaluating(eval, m) # {}
      BY DEF Evaluating
    <3>3. Cardinality(Evaluating(eval, m)) \in Nat /\ Cardinality(Evaluating(eval, m)) # 0
      BY <3>2, EvaluatingIsFinite, FS_EmptySet
    <3> HIDE DEF m
    <3>4. method[m].refs > 0
      BY <3>1, <3>3 DEF Shares
    <3> QED
      BY <3>4 DEF m
  <2> QED
    BY <2>1, <2>2 DEF StartIsSound, MethodOutlivesNode
<1> QED
  BY <1>1, <1>2, <1>3, PTL

(***************************************************************************)
(* Locks.  First the reader-writer lock: the readers' mutex is held while  *)
(* a reader is counted, the writers' mutex by the readers together or by   *)
(* one writer.                                                             *)
(***************************************************************************)
Elsewhere == {"out", "mutex", "try", "wait", "failed", "acquired", "relock", "driver"}
Labels == {"first", "counted", "reading", "writing"} \cup Elsewhere

RightCounts(p) == {t \in LockThread : p[t] \in {"first", "counted", "reading"}}

RwLocks == [read_mutex : LockThread \cup {Free}, write_mutex : LockThread \cup {Free, Readers},
            num_readers : Int]

\* Of a lock r and what every thread is doing, p.
RwSound(r, p) ==
    /\ \A t \in LockThread : r.read_mutex = t <=> p[t] \in {"first", "counted"}
    /\ \A t \in LockThread : r.write_mutex = t <=> p[t] = "writing"
    /\ r.write_mutex = Readers <=> \E t \in LockThread : p[t] \in {"counted", "reading"}
    /\ \A t, u \in LockThread : p[t] = "first" => p[u] \notin {"counted", "reading"}
    /\ r.num_readers = Cardinality(RightCounts(p))

RwIInv == lpc \in [LockThread -> Labels] /\ rw \in RwLocks /\ RwSound(rw, lpc)

\* Thread t goes to l.
Moves(p, q, t, l) ==
    /\ p \in [LockThread -> Labels] /\ q \in [LockThread -> Labels]
    /\ q[t] = l /\ \A u \in LockThread : u # t => q[u] = p[u]

LEMMA GoToMoves ==
    ASSUME NEW p \in [LockThread -> Labels], NEW t \in LockThread, NEW l \in Labels
    PROVE  Moves(p, [p EXCEPT ![t] = l], t, l)
BY DEF Moves

LEMMA CountedProperties ==
    ASSUME NEW p, NEW q, NEW t \in LockThread, NEW l, Moves(p, q, t, l)
    PROVE  /\ Cardinality(RightCounts(p)) \in Nat
           /\ (\A u \in LockThread : u \notin RightCounts(p)) <=> Cardinality(RightCounts(p)) = 0
           /\ (t \in RightCounts(p) <=> t \in RightCounts(q))
                => Cardinality(RightCounts(q)) = Cardinality(RightCounts(p))
           /\ t \notin RightCounts(p) /\ t \in RightCounts(q)
                => Cardinality(RightCounts(q)) = Cardinality(RightCounts(p)) + 1
           /\ t \in RightCounts(p) /\ t \notin RightCounts(q)
                => Cardinality(RightCounts(q)) = Cardinality(RightCounts(p)) - 1
           /\ t \in RightCounts(p) /\ Cardinality(RightCounts(p)) = 1
                => \A u \in LockThread : u # t => u \notin RightCounts(p)
           /\ t \in RightCounts(p) /\ Cardinality(RightCounts(p)) # 1
                => \E u \in LockThread : u # t /\ u \in RightCounts(p)
<1>1. \A f : IsFiniteSet(RightCounts(f)) /\ RightCounts(f) \subseteq LockThread
  BY LocksAssumption, FS_Subset DEF RightCounts
<1>2. Cardinality(RightCounts(p)) \in Nat /\ (RightCounts(p) = {} <=> Cardinality(RightCounts(p)) = 0)
  BY <1>1, FS_CardinalityType, FS_EmptySet
<1>3. \A u \in LockThread : u # t => (u \in RightCounts(p) <=> u \in RightCounts(q))
  BY DEF RightCounts, Moves
<1>4. ASSUME t \in RightCounts(p) <=> t \in RightCounts(q) PROVE RightCounts(q) = RightCounts(p)
  BY <1>1, <1>3, <1>4
<1>5. ASSUME t \notin RightCounts(p), t \in RightCounts(q)
      PROVE  Cardinality(RightCounts(q)) = Cardinality(RightCounts(p)) + 1
  <2>1. RightCounts(q) = RightCounts(p) \cup {t}
    BY <1>1, <1>3, <1>5
  <2> QED
    BY <1>1, <1>5, <2>1, FS_AddElement
<1>6. ASSUME t \in RightCounts(p)
      PROVE  Cardinality(RightCounts(p) \ {t}) = Cardinality(RightCounts(p)) - 1 /\ IsFiniteSet(RightCounts(p) \ {t})
  BY <1>1, <1>6, FS_RemoveElement
<1>7. ASSUME t \in RightCounts(p), t \notin RightCounts(q) PROVE RightCounts(q) = RightCounts(p) \ {t}
  BY <1>1, <1>3, <1>7
<1>8. ASSUME t \in RightCounts(p)
      PROVE  RightCounts(p) \ {t} = {} <=> Cardinality(RightCounts(p)) = 1
  BY <1>2, <1>6, <1>8, FS_EmptySet
<1> QED
  BY <1>1, <1>2, <1>4, <1>5, <1>6, <1>7, <1>8

LEMMA LockNames == Free # Readers /\ Free \notin LockThread /\ Readers \notin LockThread
BY LocksAssumption

\* A thread that stays clear of the lock.
LEMMA RwElsewhere ==
    ASSUME NEW r, NEW p, NEW q, NEW t \in LockThread, NEW l \in Elsewhere,
           RwSound(r, p), p[t] \in Elsewhere, Moves(p, q, t, l)
    PROVE  RwSound(r, q)
<1>1. \A u \in LockThread, x \in {"first", "counted", "reading", "writing"} : q[u] = x <=> p[u] = x
  BY DEF Elsewhere, Moves
<1>2. Cardinality(RightCounts(q)) = Cardinality(RightCounts(p))
  <2>1. t \notin RightCounts(p) /\ t \notin RightCounts(q)
    BY DEF Elsewhere, Moves, RightCounts
  <2> QED
    BY <2>1, CountedProperties
<1> QED
  BY <1>1, <1>2 DEF RwSound

\* The writers' mutex is taken by a writer, and given back.
LEMMA RwTaken ==
    ASSUME NEW r \in RwLocks, NEW p, NEW q, NEW t \in LockThread,
           RwSound(r, p), p[t] \in Elsewhere, r.write_mutex = Free, Moves(p, q, t, "writing")
    PROVE  RwSound([r EXCEPT !.write_mutex = t], q) /\ [r EXCEPT !.write_mutex = t] \in RwLocks
<1> DEFINE s == [r EXCEPT !.write_mutex = t]
<1>1. s \in RwLocks /\ s.read_mutex = r.read_mutex /\ s.write_mutex = t /\ s.num_readers = r.num_readers
  BY DEF RwLocks
<1> HIDE DEF s
<1>2. \A u \in LockThread : p[u] \notin {"counted", "reading", "writing"}
  BY LockNames DEF RwSound
<1>3. \A u \in LockThread : /\ q[u] \notin {"counted", "reading"} /\ (t = u <=> q[u] = "writing")
                            /\ (q[u] = "first" <=> p[u] = "first")
  BY <1>2 DEF Moves, Elsewhere
<1>4. Cardinality(RightCounts(q)) = Cardinality(RightCounts(p))
  <2>1. t \notin RightCounts(p) /\ t \notin RightCounts(q)
    BY DEF Elsewhere, Moves, RightCounts
  <2> QED
    BY <2>1, CountedProperties
<1>5. RwSound(s, q)
  BY <1>1, <1>2, <1>3, <1>4, LockNames DEF RwSound
<1> QED
  BY <1>1, <1>5 DEF s

LEMMA RwGiven ==
    ASSUME NEW r \in RwLocks, NEW p, NEW q, NEW t \in LockThread, NEW l \in Elsewhere,
           RwSound(r, p), p[t] = "writing", Moves(p, q, t, l)
    PROVE  RwSound([r EXCEPT !.write_mutex = Free], q) /\ [r EXCEPT !.write_mutex = Free] \in RwLocks
<1> DEFINE s == [r EXCEPT !.write_mutex = Free]
<1>1. s \in RwLocks /\ s.read_mutex = r.read_mutex /\ s.write_mutex = Free /\ s.num_readers = r.num_readers
  BY DEF RwLocks
<1> HIDE DEF s
<1>2. r.write_mutex = t
  BY DEF RwSound
<1>3. \A u \in LockThread : p[u] \notin {"counted", "reading"} /\ (u # t => p[u] # "writing")
  BY <1>2, LockNames DEF RwSound
<1>4. \A u \in LockThread : /\ q[u] \notin {"counted", "reading", "writing"}
                            /\ (q[u] = "first" <=> p[u] = "first")
  BY <1>3 DEF Moves, Elsewhere
<1>5. Cardinality(RightCounts(q)) = Cardinality(RightCounts(p))
  <2>1. t \notin RightCounts(p) /\ t \notin RightCounts(q)
    BY DEF Elsewhere, Moves, RightCounts
  <2> QED
    BY <2>1, CountedProperties
<1>6. RwSound(s, q)
  BY <1>1, <1>3, <1>4, <1>5, LockNames DEF RwSound
<1> QED
  BY <1>1, <1>6 DEF s

\* A reader comes: the first one is told so and takes the writers' mutex next.
LEMMA RwReads ==
    ASSUME NEW r \in RwLocks, NEW p, NEW q, NEW t \in LockThread, NEW l,
           RwSound(r, p), p[t] = "out", r.read_mutex = Free, Moves(p, q, t, l),
           l = IF r.num_readers = 0 THEN "first" ELSE "counted"
    PROVE  /\ RwSound([r EXCEPT !.read_mutex = t, !.num_readers = @ + 1], q)
           /\ [r EXCEPT !.read_mutex = t, !.num_readers = @ + 1] \in RwLocks
<1> DEFINE s == [r EXCEPT !.read_mutex = t, !.num_readers = @ + 1]
           n == Cardinality(RightCounts(p))
<1>1. s \in RwLocks /\ s.read_mutex = t /\ s.write_mutex = r.write_mutex /\ s.num_readers = r.num_readers + 1
  <2> DEFINE k == r.num_readers + 1
  <2>1. k \in Int /\ t \in LockThread \cup {Free}
    BY DEF RwLocks
  <2>2. s = [r EXCEPT !.read_mutex = t, !.num_readers = k]
    OBVIOUS
  <2> HIDE DEF k, s
  <2>3. s \in RwLocks /\ s.read_mutex = t /\ s.write_mutex = r.write_mutex /\ s.num_readers = k
    BY <2>1, <2>2 DEF RwLocks
  <2> QED
    BY <2>3 DEF k
<1> HIDE DEF s
<1>2. \A u \in LockThread : p[u] \notin {"first", "counted"}
  BY LockNames DEF RwSound
<1>3. t \notin RightCounts(p) /\ t \in RightCounts(q)
  BY DEF RightCounts, Moves
<1>4. Cardinality(RightCounts(q)) = n + 1 /\ ((\A u \in LockThread : u \notin RightCounts(p)) <=> n = 0)
  BY <1>3, CountedProperties
<1>5. r.num_readers = n
  BY DEF RwSound
<1> HIDE DEF n
<1>6. CASE l = "first"
  <2>1. n = 0
    BY <1>5, <1>6
  <2>2. \A u \in LockThread : p[u] # "reading"
    BY <1>4, <2>1 DEF RightCounts
  <2>3. r.write_mutex # Readers
    BY <1>2, <2>2 DEF RwSound
  <2>4. \A u \in LockThread : q[u] \notin {"counted", "reading"} /\ (q[u] = "first" <=> u = t)
                              /\ (q[u] = "writing" <=> p[u] = "writing")
    BY <1>2, <1>6, <2>2 DEF Moves
  <2> QED
    BY <1>1, <1>4, <1>5, <2>3, <2>4 DEF RwSound, s
<1>7. CASE l = "counted"
  <2>1. n # 0
    BY <1>5, <1>7
  <2>2. \E u \in LockThread : p[u] = "reading"
    BY <1>2, <1>4, <2>1 DEF RightCounts
  <2>3. r.write_mutex = Readers
    BY <2>2 DEF RwSound
  <2>4. \A u \in LockThread : q[u] # "first" /\ (q[u] = "counted" <=> u = t)
                              /\ (q[u] = "writing" <=> p[u] = "writing")
    BY <1>2, <1>7 DEF Moves
  <2> QED
    BY <1>1, <1>4, <1>5, <2>3, <2>4 DEF RwSound, s
<1> QED
  BY <1>6, <1>7

\* The last reader gives the writers' mutex back.
LEMMA RwLeaves ==
    ASSUME NEW r \in RwLocks, NEW p, NEW q, NEW t \in LockThread,
           RwSound(r, p), p[t] = "reading", r.read_mutex = Free, Moves(p, q, t, "out"),
           NEW s \in RwLocks, s.read_mutex = r.read_mutex, s.num_readers = r.num_readers - 1,
           s.write_mutex = IF r.num_readers = 1 THEN Free ELSE r.write_mutex
    PROVE  RwSound(s, q)
<1> DEFINE n == Cardinality(RightCounts(p))
<1>1. \A u \in LockThread : p[u] \notin {"first", "counted"}
  BY LockNames DEF RwSound
<1>2. t \in RightCounts(p) /\ t \notin RightCounts(q)
  BY DEF RightCounts, Moves
<1>3. /\ Cardinality(RightCounts(q)) = n - 1
      /\ n = 1 => \A u \in LockThread : u # t => u \notin RightCounts(p)
      /\ n # 1 => \E u \in LockThread : u # t /\ u \in RightCounts(p)
  BY <1>2, CountedProperties
<1>4. r.num_readers = n /\ r.write_mutex = Readers
  BY DEF RwSound
<1>5. \A u \in LockThread : p[u] # "writing"
  BY <1>4, LockNames DEF RwSound
<1> HIDE DEF n
<1>6. \A u \in LockThread : q[u] \notin {"first", "counted", "writing"}
  BY <1>1, <1>5 DEF Moves
<1>7. s.write_mutex = Readers <=> \E u \in LockThread : q[u] \in {"counted", "reading"}
  <2>1. CASE n = 1
    BY <1>3, <1>4, <2>1, LockNames DEF RightCounts, Moves
  <2>2. CASE n # 1
    BY <1>1, <1>3, <1>4, <2>2 DEF RightCounts, Moves
  <2> QED
    BY <2>1, <2>2
<1>8. \A u \in LockThread : s.write_mutex # u /\ s.read_mutex # u
  BY <1>4, LockNames
<1> QED
  BY <1>3, <1>4, <1>6, <1>7, <1>8 DEF RwSound

LEMMA RwStepKeeps == ASSUME RwIInv, NEW t \in LockThread, RwStep(t) PROVE RwIInv'
<1> USE DEF At, GoTo
<1>a. lpc \in [LockThread -> Labels] /\ rw \in RwLocks /\ RwSound(rw, lpc)
  BY DEF RwIInv
<1>b. \A l \in Labels : /\ Moves(lpc, [lpc EXCEPT ![t] = l], t, l)
                        /\ [lpc EXCEPT ![t] = l] \in [LockThread -> Labels]
  BY <1>a, GoToMoves
<1>c. \A l \in {"first", "counted", "reading", "writing", "out"} : l \in Labels
  BY DEF Labels, Elsewhere
<1>1. CASE uacpi_rw_lock_read(t)
  <2> DEFINE l == IF rw.num_readers = 0 THEN "first" ELSE "counted"
  <2>1. /\ lpc[t] = "out" /\ rw.read_mutex = Free /\ lpc' = [lpc EXCEPT ![t] = l]
        /\ rw' = [rw EXCEPT !.read_mutex = t, !.num_readers = @ + 1]
    BY <1>1 DEF uacpi_rw_lock_read, IsFirstReader
  <2>2. l \in Labels
    BY <1>c
  <2>3. Moves(lpc, lpc', t, l) /\ lpc' \in [LockThread -> Labels]
    BY <1>b, <2>1, <2>2
  <2> QED
    BY <1>a, <2>1, <2>3, RwReads DEF RwIInv
<1>2. CASE FirstReader(t)
  <2>1. /\ lpc[t] = "first" /\ rw.write_mutex = Free /\ lpc' = [lpc EXCEPT ![t] = "counted"]
        /\ rw' = [rw EXCEPT !.write_mutex = Readers]
    BY <1>2 DEF FirstReader
  <2>2. Moves(lpc, lpc', t, "counted") /\ lpc' \in [LockThread -> Labels]
    BY <1>b, <1>c, <2>1
  <2>3. /\ rw' \in RwLocks /\ rw'.read_mutex = rw.read_mutex /\ rw'.write_mutex = Readers
        /\ rw'.num_readers = rw.num_readers
    BY <1>a, <2>1 DEF RwLocks
  <2>4. rw.read_mutex = t
    BY <1>a, <2>1 DEF RwSound
  <2>5. \A u \in LockThread : u # t => lpc[u] \notin {"first", "counted"}
    BY <1>a, <2>4 DEF RwSound
  <2>6. \A u \in LockThread : lpc[u] # "writing"
    BY <1>a, <2>1, LockNames DEF RwSound
  <2>7. \A u \in LockThread : lpc'[u] # "first" /\ lpc'[u] # "writing" /\ (lpc'[u] = "counted" <=> u = t)
    BY <2>2, <2>5, <2>6 DEF Moves
  <2>8. Cardinality(RightCounts(lpc')) = Cardinality(RightCounts(lpc))
    <3>1. t \in RightCounts(lpc) /\ t \in RightCounts(lpc')
      BY <2>1, <2>2 DEF RightCounts, Moves
    <3> QED
      BY <2>2, <3>1, CountedProperties
  <2>9. RwSound(rw', lpc')
    BY <1>a, <2>3, <2>4, <2>7, <2>8, LockNames DEF RwSound
  <2> QED
    BY <2>2, <2>3, <2>9 DEF RwIInv
<1>3. CASE ReadLocked(t)
  <2>1. /\ lpc[t] = "counted" /\ lpc' = [lpc EXCEPT ![t] = "reading"]
        /\ rw' = [rw EXCEPT !.read_mutex = Free]
    BY <1>3 DEF ReadLocked
  <2>2. Moves(lpc, lpc', t, "reading") /\ lpc' \in [LockThread -> Labels]
    BY <1>b, <1>c, <2>1
  <2>3. /\ rw' \in RwLocks /\ rw'.read_mutex = Free /\ rw'.write_mutex = rw.write_mutex
        /\ rw'.num_readers = rw.num_readers
    BY <1>a, <2>1 DEF RwLocks
  <2>4. rw.read_mutex = t /\ rw.write_mutex = Readers
    BY <1>a, <2>1 DEF RwSound
  <2>5. \A u \in LockThread : u # t => lpc[u] \notin {"first", "counted"}
    BY <1>a, <2>4 DEF RwSound
  <2>6. \A u \in LockThread : /\ lpc'[u] \notin {"first", "counted"}
                              /\ (lpc'[u] = "writing" <=> lpc[u] = "writing")
    BY <2>1, <2>2, <2>5 DEF Moves
  <2>7. lpc'[t] = "reading"
    BY <2>2 DEF Moves
  <2>8. Cardinality(RightCounts(lpc')) = Cardinality(RightCounts(lpc))
    <3>1. t \in RightCounts(lpc) /\ t \in RightCounts(lpc')
      BY <2>1, <2>2 DEF RightCounts, Moves
    <3> QED
      BY <2>2, <3>1, CountedProperties
  <2>9. RwSound(rw', lpc')
    BY <1>a, <2>3, <2>4, <2>6, <2>7, <2>8, LockNames DEF RwSound
  <2> QED
    BY <2>2, <2>3, <2>9 DEF RwIInv
<1>4. CASE uacpi_rw_unlock_read(t)
  <2> DEFINE w == IF rw.num_readers = 1 THEN Free ELSE rw.write_mutex
  <2>1. /\ lpc[t] = "reading" /\ rw.read_mutex = Free /\ lpc' = [lpc EXCEPT ![t] = "out"]
        /\ rw' = [rw EXCEPT !.num_readers = rw.num_readers - 1, !.write_mutex = w]
    BY <1>4 DEF uacpi_rw_unlock_read
  <2>2. Moves(lpc, lpc', t, "out") /\ lpc' \in [LockThread -> Labels]
    BY <1>b, <1>c, <2>1
  <2>3. w \in LockThread \cup {Free, Readers}
    BY <1>a DEF RwLocks
  <2>4. /\ rw' \in RwLocks /\ rw'.read_mutex = rw.read_mutex /\ rw'.write_mutex = w
        /\ rw'.num_readers = rw.num_readers - 1
    <3> DEFINE k == rw.num_readers - 1
    <3>1. k \in Int
      BY <1>a DEF RwLocks
    <3>2. rw' = [rw EXCEPT !.num_readers = k, !.write_mutex = w]
      BY <2>1
    <3> HIDE DEF w, k
    <3>3. /\ rw' \in RwLocks /\ rw'.read_mutex = rw.read_mutex /\ rw'.write_mutex = w
          /\ rw'.num_readers = k
      BY <1>a, <2>3, <3>1, <3>2 DEF RwLocks
    <3> QED
      BY <3>3 DEF k
  <2> QED
    BY <1>a, <2>1, <2>2, <2>4, RwLeaves DEF RwIInv
<1>5. CASE uacpi_rw_lock_write(t)
  <2>1. /\ lpc[t] \in Elsewhere /\ rw.write_mutex = Free /\ lpc' = [lpc EXCEPT ![t] = "writing"]
        /\ rw' = [rw EXCEPT !.write_mutex = t]
    BY <1>5 DEF uacpi_rw_lock_write, Elsewhere
  <2>2. Moves(lpc, lpc', t, "writing") /\ lpc' \in [LockThread -> Labels]
    BY <1>b, <1>c, <2>1
  <2> QED
    BY <1>a, <2>1, <2>2, RwTaken DEF RwIInv
<1>6. CASE uacpi_rw_unlock_write(t)
  <2>1. /\ lpc[t] = "writing" /\ lpc' = [lpc EXCEPT ![t] = "out"]
        /\ rw' = [rw EXCEPT !.write_mutex = Free]
    BY <1>6 DEF uacpi_rw_unlock_write
  <2>2. Moves(lpc, lpc', t, "out") /\ lpc' \in [LockThread -> Labels] /\ "out" \in Elsewhere
    BY <1>b, <1>c, <2>1 DEF Elsewhere
  <2> QED
    BY <1>a, <2>1, <2>2, RwGiven DEF RwIInv
<1> QED
  BY <1>1, <1>2, <1>3, <1>4, <1>5, <1>6 DEF RwStep

(***************************************************************************)
(* The global lock.  Who tries, waits, fails or has acquired holds the     *)
(* native mutex, so nobody but the firmware can stand in its way.          *)
(***************************************************************************)
AmlMutex == [handle : LockThread \cup {Free}, owner : LockThread \cup {Free}, depth : Int]
FacsWord == [owned : BOOLEAN, pending : BOOLEAN, owner : LockThread \cup {Free, Firmware}]
GlFields == [lock_pending : BOOLEAN, event : BOOLEAN, gbl_sts : BOOLEAN, spins : Int,
             seq_num : Int, out_seq : Int, acquired : BOOLEAN]
Holding == {"try", "wait", "failed", "acquired", "driver"}

GlTypes == aml \in AmlMutex /\ facs \in FacsWord /\ gl \in GlFields

Holders ==
    /\ \A t \in LockThread : lpc[t] \in Holding => aml.handle = t
    /\ aml.owner # Free => /\ aml.handle = aml.owner /\ aml.depth > 0
                           /\ lpc[aml.owner] \in {"relock", "writing"}

FacsOwner ==
    /\ facs.owned <=> facs.owner # Free
    /\ facs.owner \in LockThread =>
          aml.handle = facs.owner /\ lpc[facs.owner] \notin {"try", "wait", "failed"}

GlIInv == GlTypes /\ Holders /\ FacsOwner /\ NoLostRelease

LEMMA GlNames == /\ Free \notin LockThread /\ Firmware \notin LockThread /\ Free # Firmware
BY LocksAssumption

\* A thread that has no part in the global lock, and keeps it that way.
LEMMA GlElsewhere ==
    ASSUME GlIInv, NEW t \in LockThread, NEW l \in Labels \ Holding,
           UNCHANGED <<aml, facs, gl>>, Moves(lpc, lpc', t, l),
           aml.owner = t => l \in {"relock", "writing"}
    PROVE  GlIInv'
<1>1. \A u \in LockThread : lpc'[u] \in Holding => lpc[u] = lpc'[u]
  BY DEF Moves
<1>2. Holders'
  BY <1>1, GlNames DEF GlIInv, GlTypes, AmlMutex, Holders, Moves
<1>3. FacsOwner'
  BY <1>1 DEF GlIInv, GlTypes, FacsWord, FacsOwner, Moves, Holding
<1>4. NoLostRelease'
  <2>1. \A u \in LockThread : lpc'[u] = "wait" => lpc[u] = "wait"
    BY <1>1 DEF Holding
  <2> QED
    BY <2>1 DEF GlIInv, NoLostRelease, At
<1> QED
  BY <1>2, <1>3, <1>4 DEF GlIInv, GlTypes

\* Nobody waits for the firmware while somebody else holds the native mutex.
LEMMA OneWaits ==
    ASSUME GlIInv, NEW t, aml.handle = t
    PROVE  \A u \in LockThread : u # t => lpc[u] \notin Holding
BY DEF GlIInv, Holders

\* Nobody has the native mutex: nobody has a part in the global lock.
LEMMA HandleIsFree ==
    ASSUME GlIInv, aml.handle = Free
    PROVE  aml.owner = Free /\ facs.owner \notin LockThread /\ \A u \in LockThread : lpc[u] \notin Holding
BY GlNames DEF GlIInv, GlTypes, AmlMutex, Holders, FacsOwner

\* One pass of the loop: who does not get the lock from the firmware has told it to notify.
LEMMA AcquireStep ==
    ASSUME RwIInv, GlIInv, NEW t \in LockThread, AcquireFromFirmware(t)
    PROVE  RwIInv' /\ GlIInv'
<1> USE DEF At, GoTo
<1> DEFINE won == ~facs.owned
           last == gl.spins = MaxSpins
           l == IF won THEN "acquired" ELSE IF last THEN "failed" ELSE "wait"
           pend == ~won /\ ~last
           k == IF won THEN 0 ELSE gl.spins
<1>1. /\ lpc[t] = "try" /\ lpc' = [lpc EXCEPT ![t] = l] /\ UNCHANGED <<rw, aml>>
      /\ facs' = [owned |-> TRUE, pending |-> facs.owned, owner |-> IF facs.owned THEN facs.owner ELSE t]
      /\ gl' = [gl EXCEPT !.lock_pending = pend, !.spins = k]
  BY DEF AcquireFromFirmware, try_acquire_global_lock_from_firmware
<1>2. lpc \in [LockThread -> Labels] /\ l \in Elsewhere /\ l \in Labels /\ lpc[t] \in Elsewhere
  BY <1>1 DEF RwIInv, Elsewhere, Labels
<1>3. Moves(lpc, lpc', t, l) /\ lpc' \in [LockThread -> Labels]
  <2> HIDE DEF l
  <2> QED
    BY <1>1, <1>2, GoToMoves DEF Moves
<1>4. RwIInv'
  BY <1>1, <1>2, <1>3, RwElsewhere DEF RwIInv
<1>5. aml.handle = t
  BY <1>1 DEF GlIInv, Holders, Holding
<1>6. facs.owner \notin LockThread /\ aml.owner # t
  BY <1>1, <1>5, GlNames DEF GlIInv, FacsOwner, Holders
<1>7. facs \in FacsWord /\ gl \in GlFields /\ aml \in AmlMutex /\ (facs.owned <=> facs.owner # Free)
  BY DEF GlIInv, GlTypes, FacsOwner
<1>8. facs.owned => facs.owner = Firmware
  BY <1>6, <1>7 DEF FacsWord
<1>9. /\ facs' \in FacsWord /\ facs'.owned /\ facs'.owner = IF won THEN t ELSE Firmware
      /\ ~won => facs'.pending
  BY <1>1, <1>7, <1>8 DEF FacsWord
<1>10. gl' \in GlFields /\ gl'.lock_pending = pend
  <2>1. pend \in BOOLEAN
    OBVIOUS
  <2>2. k \in Int
    BY <1>7 DEF GlFields
  <2> HIDE DEF pend, k
  <2> QED
    BY <1>1, <1>7, <2>1, <2>2 DEF GlFields
<1>11. \A u \in LockThread : u # t => lpc'[u] \notin Holding
  BY <1>3, <1>5, OneWaits DEF Moves
<1>12. lpc'[t] = l
  BY <1>3 DEF Moves
<1>13. Holders'
  BY <1>1, <1>3, <1>5, <1>6, <1>11 DEF Holders, GlIInv, Moves
<1>14. FacsOwner'
  <2>1. CASE won
    <3>1. l = "acquired"
      BY <2>1
    <3> HIDE DEF l, won
    <3> QED
      BY <1>1, <1>5, <1>9, <1>12, <2>1, <3>1, GlNames DEF FacsOwner
  <2>2. CASE ~won
    <3> HIDE DEF won
    <3> QED
      BY <1>9, <2>2, GlNames DEF FacsOwner
  <2> QED
    BY <2>1, <2>2
<1>15. NoLostRelease'
  <2>1. ASSUME NEW u \in LockThread, lpc'[u] = "wait"
        PROVE  gl'.lock_pending /\ facs'.owner = Firmware /\ facs'.pending
    <3>1. u = t
      BY <1>11, <2>1 DEF Holding
    <3>2. ~won /\ ~last
      BY <1>12, <2>1, <3>1
    <3> QED
      BY <1>9, <1>10, <3>2
  <2> QED
    BY <2>1 DEF NoLostRelease
<1> QED
  BY <1>1, <1>4, <1>7, <1>9, <1>10, <1>13, <1>14, <1>15 DEF GlIInv, GlTypes

LEMMA AmlStepKeeps == ASSUME RwIInv, GlIInv, NEW t \in LockThread, AmlStep(t) PROVE RwIInv' /\ GlIInv'
<1> USE DEF At, GoTo
<1>a. lpc \in [LockThread -> Labels] /\ rw \in RwLocks /\ RwSound(rw, lpc) /\ GlTypes
  BY DEF RwIInv, GlIInv
<1>b. \A l \in Labels : /\ Moves(lpc, [lpc EXCEPT ![t] = l], t, l)
                        /\ [lpc EXCEPT ![t] = l] \in [LockThread -> Labels]
  BY <1>a, GoToMoves
<1>c. Elsewhere \subseteq Labels /\ "writing" \in Labels
  BY DEF Labels
\* Most steps leave the namespace lock alone.
<1>d. ASSUME NEW l \in Elsewhere, lpc[t] \in Elsewhere, lpc' = [lpc EXCEPT ![t] = l], rw' = rw
      PROVE  RwIInv' /\ Moves(lpc, lpc', t, l)
  <2>1. Moves(lpc, lpc', t, l) /\ lpc' \in [LockThread -> Labels]
    BY <1>b, <1>c, <1>d
  <2>2. RwSound(rw, lpc')
    BY <1>a, <1>d, <2>1, RwElsewhere
  <2> QED
    BY <1>a, <1>d, <2>1, <2>2 DEF RwIInv
<1>1. CASE AmlReacquire(t)
  <2>1. UNCHANGED <<rw, facs, gl, lpc>> /\ aml' = [aml EXCEPT !.depth = aml.depth + 1]
    BY <1>1 DEF AmlReacquire
  <2>2. aml.depth \in Int /\ aml.depth + 1 \in Int /\ (aml.depth > 0 => aml.depth + 1 > 0)
    BY <1>a DEF GlTypes, AmlMutex
  <2>3. aml' \in AmlMutex /\ aml'.handle = aml.handle /\ aml'.owner = aml.owner
        /\ (aml.depth > 0 => aml'.depth > 0)
    <3> DEFINE k == aml.depth + 1
    <3>1. k \in Int /\ aml' = [aml EXCEPT !.depth = k] /\ (aml.depth > 0 => k > 0)
      BY <2>1, <2>2
    <3> HIDE DEF k
    <3> QED
      BY <1>a, <3>1 DEF GlTypes, AmlMutex
  <2> QED
    BY <2>1, <2>3 DEF GlIInv, GlTypes, Holders, FacsOwner, NoLostRelease, RwIInv
<1>2. CASE uacpi_acquire_aml_mutex(t)
  <2>1. /\ lpc[t] = "writing" /\ aml.owner # t /\ lpc' = [lpc EXCEPT ![t] = "mutex"]
        /\ rw' = [rw EXCEPT !.write_mutex = Free] /\ UNCHANGED <<aml, facs, gl>>
    BY <1>2 DEF uacpi_acquire_aml_mutex, DropNamespaceLock
  <2>2. "mutex" \in Elsewhere /\ "mutex" \in Labels \ Holding
    BY DEF Elsewhere, Labels, Holding
  <2>3. Moves(lpc, lpc', t, "mutex") /\ lpc' \in [LockThread -> Labels]
    BY <1>b, <2>1, <2>2
  <2>4. RwIInv'
    BY <1>a, <2>1, <2>2, <2>3, RwGiven DEF RwIInv
  <2>5. GlIInv'
    BY <2>1, <2>2, <2>3, GlElsewhere
  <2> QED
    BY <2>4, <2>5
<1>3. CASE TakeNativeMutex(t)
  <2>1. /\ lpc[t] = "mutex" /\ aml.handle = Free /\ aml' = [aml EXCEPT !.handle = t]
        /\ lpc' = [lpc EXCEPT ![t] = "try"] /\ UNCHANGED <<rw, facs, gl>>
    BY <1>3 DEF TakeNativeMutex
  <2>2. RwIInv' /\ Moves(lpc, lpc', t, "try")
    BY <1>d, <2>1 DEF Elsewhere
  <2>3. aml' \in AmlMutex /\ aml'.handle = t /\ aml'.owner = aml.owner
    BY <1>a, <2>1 DEF GlTypes, AmlMutex
  <2>4. aml.owner = Free /\ facs.owner \notin LockThread /\ \A u \in LockThread : lpc[u] \notin Holding
    BY <2>1, HandleIsFree
  <2>5. \A u \in LockThread : u # t => lpc'[u] \notin Holding
    BY <2>2, <2>4 DEF Moves
  <2>6. \A u \in LockThread : lpc'[u] # "wait"
    BY <2>2, <2>5 DEF Moves, Holding
  <2>7. Holders'
    BY <2>3, <2>4, <2>5 DEF Holders
  <2>8. FacsOwner' /\ NoLostRelease' /\ GlTypes'
    BY <1>a, <2>1, <2>3, <2>4, <2>6 DEF FacsOwner, NoLostRelease, GlTypes, GlIInv
  <2> QED
    BY <2>2, <2>7, <2>8 DEF GlIInv
<1>4. CASE NativeMutexTimeout(t)
  <2>1. lpc[t] = "mutex" /\ lpc' = [lpc EXCEPT ![t] = "relock"] /\ UNCHANGED <<rw, aml, facs, gl>>
    BY <1>4 DEF NativeMutexTimeout
  <2>2. "relock" \in Elsewhere /\ "relock" \in Labels \ Holding /\ "mutex" \in Elsewhere
    BY DEF Elsewhere, Labels, Holding
  <2>3. RwIInv' /\ Moves(lpc, lpc', t, "relock")
    BY <1>d, <2>1, <2>2
  <2> QED
    BY <2>1, <2>2, <2>3, GlElsewhere
<1>5. CASE AcquireFromFirmware(t)
  BY <1>5, <1>d, AcquireStep
<1>6. CASE WaitForRelease(t)
  <2>1. /\ lpc[t] = "wait" /\ gl' = [gl EXCEPT !.event = FALSE, !.spins = gl.spins + 1]
        /\ lpc' = [lpc EXCEPT ![t] = "try"] /\ UNCHANGED <<rw, aml, facs>>
    BY <1>6 DEF WaitForRelease
  <2>2. RwIInv' /\ Moves(lpc, lpc', t, "try")
    BY <1>d, <2>1 DEF Elsewhere
  <2>3. gl' \in GlFields
    <3> DEFINE k == gl.spins + 1
    <3>1. k \in Int /\ gl' = [gl EXCEPT !.event = FALSE, !.spins = k] /\ gl \in GlFields
      BY <1>a, <2>1 DEF GlTypes, GlFields
    <3> HIDE DEF k
    <3> QED
      BY <3>1 DEF GlFields
  <2>4. aml.handle = t
    BY <2>1 DEF GlIInv, Holders, Holding
  <2>5. \A u \in LockThread : u # t => lpc'[u] \notin Holding
    BY <2>2, <2>4, OneWaits DEF Moves
  <2>6. \A u \in LockThread : lpc'[u] # "wait"
    BY <2>2, <2>5 DEF Moves, Holding
  <2>7. facs.owner # t /\ aml.owner # t
    BY <2>1, GlNames DEF GlIInv, FacsOwner, Holders
  <2>8. Holders'
    BY <2>1, <2>2, <2>4, <2>5, <2>7 DEF Holders, GlIInv, Moves
  <2>9. FacsOwner'
    BY <2>1, <2>2, <2>7 DEF FacsOwner, GlIInv, Moves
  <2>10. NoLostRelease' /\ GlTypes'
    BY <1>a, <2>1, <2>3, <2>6 DEF NoLostRelease, GlTypes
  <2> QED
    BY <2>2, <2>8, <2>9, <2>10 DEF GlIInv
<1>7. CASE AcquireFailed(t)
  <2>1. /\ lpc[t] = "failed" /\ aml' = [aml EXCEPT !.handle = Free] /\ gl' = [gl EXCEPT !.spins = 0]
        /\ lpc' = [lpc EXCEPT ![t] = "relock"] /\ UNCHANGED <<rw, facs>>
    BY <1>7 DEF AcquireFailed
  <2>2. RwIInv' /\ Moves(lpc, lpc', t, "relock")
    BY <1>d, <2>1 DEF Elsewhere
  <2>3. aml' \in AmlMutex /\ aml'.handle = Free /\ aml'.owner = aml.owner /\ gl' \in GlFields
    BY <1>a, <2>1 DEF GlTypes, AmlMutex, GlFields
  <2>4. aml.handle = t
    BY <2>1 DEF GlIInv, Holders, Holding
  <2>5. facs.owner \notin LockThread
    BY <2>1, <2>4 DEF GlIInv, FacsOwner
  <2>6. aml.owner = Free
    BY <2>1, <2>4 DEF GlIInv, Holders
  <2>7. \A u \in LockThread : lpc'[u] \notin Holding
    BY <2>2, <2>4, OneWaits DEF Moves, Holding
  <2>8. Holders' /\ NoLostRelease'
    BY <2>3, <2>6, <2>7 DEF Holders, NoLostRelease, Holding
  <2>9. FacsOwner' /\ GlTypes'
    BY <1>a, <2>1, <2>3, <2>5 DEF FacsOwner, GlIInv, GlTypes
  <2> QED
    BY <2>2, <2>8, <2>9 DEF GlIInv
<1>8. CASE AcquireDone(t)
  <2>1. /\ lpc[t] = "acquired" /\ aml' = [aml EXCEPT !.owner = t, !.depth = 1]
        /\ lpc' = [lpc EXCEPT ![t] = "relock"] /\ UNCHANGED <<rw, facs, gl>>
    BY <1>8 DEF AcquireDone
  <2>2. RwIInv' /\ Moves(lpc, lpc', t, "relock")
    BY <1>d, <2>1 DEF Elsewhere
  <2>3. aml' \in AmlMutex /\ aml'.handle = aml.handle /\ aml'.owner = t /\ aml'.depth = 1
    <3> DEFINE k == 1
    <3>1. k \in Int /\ aml' = [aml EXCEPT !.owner = t, !.depth = k]
      BY <2>1
    <3> HIDE DEF k
    <3>2. aml' \in AmlMutex /\ aml'.handle = aml.handle /\ aml'.owner = t /\ aml'.depth = k
      BY <1>a, <3>1 DEF GlTypes, AmlMutex
    <3> QED
      BY <3>2 DEF k
  <2>4. aml.handle = t
    BY <2>1 DEF GlIInv, Holders, Holding
  <2>5. \A u \in LockThread : lpc'[u] \notin Holding
    BY <2>2, <2>4, OneWaits DEF Moves, Holding
  <2>6. lpc'[t] = "relock"
    BY <2>2 DEF Moves
  <2>7. Holders' /\ NoLostRelease'
    BY <2>3, <2>4, <2>5, <2>6 DEF Holders, NoLostRelease, Holding
  <2>8. FacsOwner' /\ GlTypes'
    BY <1>a, <2>1, <2>2, <2>3 DEF FacsOwner, GlIInv, GlTypes, Moves
  <2> QED
    BY <2>2, <2>7, <2>8 DEF GlIInv
<1>9. CASE RelockNamespace(t)
  <2>1. /\ lpc[t] = "relock" /\ rw.write_mutex = Free /\ rw' = [rw EXCEPT !.write_mutex = t]
        /\ lpc' = [lpc EXCEPT ![t] = "writing"] /\ UNCHANGED <<aml, facs, gl>>
    BY <1>9 DEF RelockNamespace
  <2>2. "relock" \in Elsewhere /\ "writing" \in Labels \ Holding
    BY DEF Elsewhere, Labels, Holding
  <2>3. Moves(lpc, lpc', t, "writing") /\ lpc' \in [LockThread -> Labels]
    BY <1>b, <2>1, <2>2
  <2>4. RwIInv'
    BY <1>a, <2>1, <2>2, <2>3, RwTaken DEF RwIInv
  <2> QED
    BY <2>1, <2>2, <2>3, <2>4, GlElsewhere
<1>10. CASE uacpi_release_aml_mutex(t)
  <2>1. lpc[t] = "writing" /\ aml.owner = t /\ UNCHANGED <<rw, gl, lpc>>
    BY <1>10 DEF uacpi_release_aml_mutex
  <2>2. RwIInv'
    BY <2>1 DEF RwIInv
  <2>3. aml.handle = t /\ t # Free
    BY <2>1, GlNames DEF GlIInv, Holders
  <2>4. CASE aml.depth > 1 /\ aml' = [aml EXCEPT !.depth = aml.depth - 1] /\ UNCHANGED facs
    <3> DEFINE k == aml.depth - 1
    <3>1. k \in Int /\ k > 0 /\ aml' = [aml EXCEPT !.depth = k]
      BY <1>a, <2>4 DEF GlTypes, AmlMutex
    <3> HIDE DEF k
    <3>2. aml' \in AmlMutex /\ aml'.handle = aml.handle /\ aml'.owner = aml.owner /\ aml'.depth > 0
      BY <1>a, <3>1 DEF GlTypes, AmlMutex
    <3> QED
      BY <2>1, <2>2, <2>4, <3>2 DEF GlIInv, GlTypes, Holders, FacsOwner, NoLostRelease
  <2>5. CASE ReleaseToFirmware /\ aml' = [handle |-> Free, owner |-> Free, depth |-> 0]
    <3>1. /\ aml' \in AmlMutex /\ facs' \in FacsWord /\ aml'.owner = Free /\ ~facs'.owned /\ facs'.owner = Free
      BY <2>5 DEF AmlMutex, FacsWord, ReleaseToFirmware
    <3>2. \A u \in LockThread : lpc[u] \notin Holding
      BY <2>1, <2>3, OneWaits DEF Holding
    <3>3. Holders' /\ NoLostRelease'
      BY <2>1, <3>1, <3>2 DEF Holders, NoLostRelease, Holding
    <3>4. FacsOwner' /\ GlTypes'
      BY <1>a, <2>1, <3>1, GlNames DEF FacsOwner, GlTypes
    <3> QED
      BY <2>2, <3>3, <3>4 DEF GlIInv
  <2> QED
    BY <1>10, <2>4, <2>5 DEF uacpi_release_aml_mutex
<1> QED
  BY <1>1, <1>2, <1>3, <1>4, <1>5, <1>6, <1>7, <1>8, <1>9, <1>10 DEF AmlStep

LEMMA LocksStep == RwIInv /\ GlIInv /\ [LocksNext]_locksVars => RwIInv' /\ GlIInv'
<1> SUFFICES ASSUME RwIInv, GlIInv, [LocksNext]_locksVars PROVE RwIInv' /\ GlIInv'
  OBVIOUS
<1>a. lpc \in [LockThread -> Labels] /\ GlTypes /\ FacsOwner
  BY DEF RwIInv, GlIInv
<1>1. ASSUME NEW t \in LockThread, RwStep(t) PROVE RwIInv' /\ GlIInv'
  <2>1. RwIInv'
    BY <1>1, RwStepKeeps
  <2>2. PICK l \in {"out", "first", "counted", "reading", "writing"} :
           lpc' = [lpc EXCEPT ![t] = l] /\ UNCHANGED <<aml, facs, gl>> /\ (aml.owner = t => l = "writing")
    <3>1. aml.owner = t => lpc[t] \in {"relock", "writing"}
      BY GlNames DEF GlIInv, Holders
    <3>2. CASE uacpi_rw_lock_read(t)
      BY <3>1, <3>2 DEF uacpi_rw_lock_read, At, GoTo
    <3>3. CASE FirstReader(t)
      BY <3>1, <3>3 DEF FirstReader, At, GoTo
    <3>4. CASE ReadLocked(t)
      BY <3>1, <3>4 DEF ReadLocked, At, GoTo
    <3>5. CASE uacpi_rw_unlock_read(t)
      BY <3>1, <3>5 DEF uacpi_rw_unlock_read, At, GoTo
    <3>6. CASE uacpi_rw_lock_write(t)
      BY <3>1, <3>6 DEF uacpi_rw_lock_write, At, GoTo
    <3>7. CASE uacpi_rw_unlock_write(t)
      BY <3>1, <3>7 DEF uacpi_rw_unlock_write, At, GoTo
    <3> QED
      BY <1>1, <3>2, <3>3, <3>4, <3>5, <3>6, <3>7 DEF RwStep
  <2>3. l \in Labels \ Holding
    BY DEF Labels, Elsewhere, Holding
  <2>4. Moves(lpc, lpc', t, l)
    BY <1>a, <2>2, <2>3, GoToMoves
  <2> QED
    BY <2>1, <2>2, <2>3, <2>4, GlElsewhere
<1>2. ASSUME NEW t \in LockThread, AmlStep(t) PROVE RwIInv' /\ GlIInv'
  BY <1>2, AmlStepKeeps
<1>3. CASE handle_global_lock
  <2> DEFINE e == gl.lock_pending \/ gl.event
  <2>1. /\ gl' = [gl EXCEPT !.gbl_sts = FALSE, !.lock_pending = FALSE, !.event = e]
        /\ UNCHANGED <<rw, aml, facs, lpc>>
    BY <1>3 DEF handle_global_lock
  <2>2. gl' \in GlFields /\ gl'.event = e
    <3>1. e \in BOOLEAN
      OBVIOUS
    <3> HIDE DEF e
    <3> QED
      BY <1>a, <2>1, <3>1 DEF GlTypes, GlFields
  <2>3. NoLostRelease'
    BY <2>1, <2>2 DEF GlIInv, NoLostRelease, At
  <2> QED
    BY <1>a, <2>1, <2>2, <2>3 DEF GlIInv, GlTypes, Holders, FacsOwner, RwIInv
<1>4. CASE FirmwareAcquire
  <2>1. /\ facs.owner # Firmware /\ UNCHANGED <<rw, aml, gl, lpc>>
        /\ facs' = [owned |-> TRUE, pending |-> facs.owned,
                    owner |-> IF facs.owned THEN facs.owner ELSE Firmware]
    BY <1>4 DEF FirmwareAcquire
  <2>2. facs' \in FacsWord /\ facs'.owned /\ facs'.owner = IF facs.owned THEN facs.owner ELSE Firmware
    BY <1>a, <2>1 DEF GlTypes, FacsWord
  <2>3. FacsOwner'
    <3>1. CASE facs.owned
      BY <1>a, <2>1, <2>2, <3>1 DEF FacsOwner
    <3>2. CASE ~facs.owned
      BY <2>2, <3>2, GlNames DEF FacsOwner
    <3> QED
      BY <3>1, <3>2
  <2>4. NoLostRelease'
    BY <2>1 DEF GlIInv, NoLostRelease, At
  <2> QED
    BY <1>a, <2>1, <2>2, <2>3, <2>4 DEF GlIInv, GlTypes, Holders, RwIInv
<1>5. CASE FirmwareRelease
  <2> DEFINE e == gl.gbl_sts \/ facs.pending
  <2>1. /\ facs.owner = Firmware /\ gl' = [gl EXCEPT !.gbl_sts = e]
        /\ facs' = [owned |-> FALSE, pending |-> FALSE, owner |-> Free] /\ UNCHANGED <<rw, aml, lpc>>
    BY <1>5 DEF FirmwareRelease, ReleaseToFirmware
  <2>2. facs' \in FacsWord /\ ~facs'.owned /\ facs'.owner = Free
    BY <2>1 DEF FacsWord
  <2>3. gl' \in GlFields /\ gl'.gbl_sts = e /\ gl'.event = gl.event /\ gl'.lock_pending = gl.lock_pending
    <3>1. e \in BOOLEAN
      OBVIOUS
    <3> HIDE DEF e
    <3> QED
      BY <1>a, <2>1, <3>1 DEF GlTypes, GlFields
  <2>4. NoLostRelease'
    BY <2>1, <2>3 DEF GlIInv, NoLostRelease, At
  <2>5. FacsOwner'
    BY <2>2, GlNames DEF FacsOwner
  <2> QED
    BY <1>a, <2>1, <2>2, <2>3, <2>4, <2>5 DEF GlIInv, GlTypes, Holders, RwIInv
<1>6. ASSUME NEW t \in LockThread, uacpi_acquire_global_lock(t) PROVE RwIInv' /\ GlIInv'
  <2> DEFINE n == IF gl.seq_num = MaxSeq THEN 0 ELSE gl.seq_num
             m == n + 1
  <2>1. /\ lpc[t] = "out" /\ aml.handle = Free /\ ~facs.owned
        /\ facs' = [owned |-> TRUE, pending |-> facs.owned, owner |-> IF facs.owned THEN facs.owner ELSE t]
        /\ aml' = [aml EXCEPT !.handle = t] /\ lpc' = [lpc EXCEPT ![t] = "driver"] /\ rw' = rw
        /\ gl' = [gl EXCEPT !.out_seq = n, !.seq_num = m, !.acquired = TRUE]
    BY <1>6 DEF uacpi_acquire_global_lock, try_acquire_global_lock_from_firmware, At, GoTo
  <2>2. "out" \in Elsewhere /\ "driver" \in Elsewhere /\ "driver" \in Labels
    BY DEF Elsewhere, Labels
  <2>3. Moves(lpc, lpc', t, "driver")
    BY <1>a, <2>1, <2>2, GoToMoves
  <2>4. RwIInv'
    <3>1. lpc[t] \in Elsewhere /\ RwSound(rw, lpc) /\ rw \in RwLocks
      BY <2>1, <2>2 DEF RwIInv
    <3>2. RwSound(rw, lpc')
      BY <2>2, <2>3, <3>1, RwElsewhere
    <3>3. lpc' \in [LockThread -> Labels]
      BY <2>3 DEF Moves
    <3> QED
      BY <2>1, <3>1, <3>2, <3>3 DEF RwIInv
  <2>5. gl' \in GlFields
    <3>1. n \in Int /\ m \in Int
      BY <1>a DEF GlTypes, GlFields
    <3> HIDE DEF n, m
    <3> QED
      BY <1>a, <2>1, <3>1 DEF GlTypes, GlFields
  <2>6. aml' \in AmlMutex /\ aml'.handle = t /\ aml'.owner = aml.owner
    BY <1>a, <2>1 DEF GlTypes, AmlMutex
  <2>7. facs' \in FacsWord /\ facs'.owned /\ facs'.owner = t
    BY <1>a, <2>1 DEF GlTypes, FacsWord
  <2>8. aml.owner = Free /\ \A u \in LockThread : lpc[u] \notin Holding
    BY <2>1, HandleIsFree
  <2>9. lpc'[t] = "driver" /\ \A u \in LockThread : u # t => lpc'[u] \notin Holding
    BY <2>3, <2>8 DEF Moves
  <2>10. Holders' /\ FacsOwner'
    BY <2>6, <2>7, <2>8, <2>9, GlNames DEF Holders, FacsOwner
  <2>11. \A u \in LockThread : lpc'[u] # "wait"
    BY <2>9 DEF Holding
  <2> QED
    BY <2>4, <2>5, <2>6, <2>7, <2>10, <2>11 DEF GlIInv, GlTypes, NoLostRelease, At
<1>7. ASSUME NEW t \in LockThread, NEW seq, uacpi_release_global_lock(t, seq) PROVE RwIInv' /\ GlIInv'
  <2>1. lpc[t] = "driver" /\ lpc' = [lpc EXCEPT ![t] = "out"] /\ rw' = rw
    BY <1>7 DEF uacpi_release_global_lock, At, GoTo
  <2>2. "out" \in Elsewhere /\ "driver" \in Elsewhere /\ "out" \in Labels \ Holding
    BY DEF Elsewhere, Labels, Holding
  <2>3. Moves(lpc, lpc', t, "out")
    BY <1>a, <2>1, <2>2, GoToMoves
  <2>4. RwIInv'
    <3>1. lpc[t] \in Elsewhere /\ RwSound(rw, lpc) /\ rw \in RwLocks
      BY <2>1, <2>2 DEF RwIInv
    <3>2. RwSound(rw, lpc')
      BY <2>2, <2>3, <3>1, RwElsewhere
    <3>3. lpc' \in [LockThread -> Labels]
      BY <2>3 DEF Moves
    <3> QED
      BY <2>1, <3>1, <3>2, <3>3 DEF RwIInv
  <2>5. aml.handle = t /\ aml.owner # t
    BY <2>1, GlNames DEF GlIInv, Holders, Holding
  <2>6. CASE UNCHANGED <<gl, facs, aml>>
    BY <2>2, <2>3, <2>4, <2>5, <2>6, GlElsewhere
  <2>7. CASE gl' = [gl EXCEPT !.acquired = FALSE] /\ ReleaseToFirmware /\ aml' = [aml EXCEPT !.handle = Free]
    <3>1. gl' \in GlFields /\ aml' \in AmlMutex /\ aml'.owner = aml.owner
      BY <1>a, <2>7 DEF GlTypes, GlFields, AmlMutex
    <3>2. facs' \in FacsWord /\ ~facs'.owned /\ facs'.owner = Free
      BY <2>7 DEF FacsWord, ReleaseToFirmware
    <3>3. aml.owner = Free
      BY <2>5 DEF GlIInv, Holders
    <3>4. \A u \in LockThread : lpc'[u] \notin Holding
      BY <2>3, <2>5, OneWaits DEF Moves, Holding
    <3>5. Holders' /\ FacsOwner'
      BY <3>1, <3>2, <3>3, <3>4, GlNames DEF Holders, FacsOwner
    <3>6. \A u \in LockThread : lpc'[u] # "wait"
      BY <3>4 DEF Holding
    <3> QED
      BY <2>4, <3>1, <3>2, <3>5, <3>6 DEF GlIInv, GlTypes, NoLostRelease, At
  <2> QED
    BY <1>7, <2>6, <2>7 DEF uacpi_release_global_lock
<1>8. CASE UNCHANGED locksVars
  BY <1>8 DEF locksVars, RwIInv, GlIInv, GlTypes, Holders, FacsOwner, NoLostRelease, At
<1> QED
  BY <1>1, <1>2, <1>3, <1>4, <1>5, <1>6, <1>7, <1>8 DEF LocksNext

LEMMA SomebodyGoesOn == ASSUME RwIInv, GlIInv PROVE NotAllStuck
<1> SUFFICES ASSUME \A t \in LockThread : ~CanGoOn(t), ~gl.gbl_sts, facs.owner # Firmware PROVE FALSE
  BY DEF NotAllStuck
<1> USE DEF CanGoOn, At
<1>a. lpc \in [LockThread -> Labels] /\ rw \in RwLocks /\ RwSound(rw, lpc) /\ Holders /\ NoLostRelease
  BY DEF RwIInv, GlIInv
<1>1. \A t \in LockThread : lpc[t] # "writing"
  BY <1>a, GlNames DEF Holders
<1>2. rw.write_mutex \notin LockThread
  BY <1>1, <1>a DEF RwSound
<1>3. \A t \in LockThread : lpc[t] # "wait"
  BY <1>a DEF NoLostRelease
\* Nobody is being counted, or the first reader would be waiting for other readers.
<1>4. \A t \in LockThread : lpc[t] # "first"
  <2> SUFFICES ASSUME NEW t \in LockThread, lpc[t] = "first" PROVE FALSE
    OBVIOUS
  <2>1. rw.write_mutex # Readers
    BY <1>a DEF RwSound
  <2>2. rw.write_mutex = Free
    BY <1>2, <1>a, <2>1 DEF RwLocks
  <2> QED
    BY <2>2
<1>5. \A t \in LockThread : lpc[t] # "counted"
  OBVIOUS
<1>6. rw.read_mutex = Free
  BY <1>4, <1>5, <1>a DEF RwLocks, RwSound
<1>7. \A t \in LockThread : lpc[t] \notin {"reading", "out"}
  BY <1>6
<1>8. rw.write_mutex # Readers
  BY <1>5, <1>7, <1>a DEF RwSound
<1>9. rw.write_mutex = Free
  BY <1>2, <1>8, <1>a DEF RwLocks
<1>10. PICK t \in LockThread : TRUE
  BY LocksAssumption
<1>11. lpc[t] \in Labels
  BY <1>a
<1> QED
  BY <1>1, <1>3, <1>4, <1>5, <1>7, <1>9, <1>11 DEF Labels, Elsewhere

\* For any number of threads: a writer of the namespace is alone, a release by the
\* firmware reaches the thread that waits for it, and somebody can always go on,
\* although methods wait for mutexes and for the firmware (mutex.c).
THEOREM LocksWork == LocksInit /\ [][LocksNext]_locksVars => []LocksAreSound
<1>1. ASSUME LocksInit PROVE RwIInv /\ GlIInv
  <2>1. lpc \in [LockThread -> Labels] /\ \A t \in LockThread : lpc[t] = "out"
    BY <1>1 DEF LocksInit, Labels, Elsewhere
  <2>2. RightCounts(lpc) = {} /\ Cardinality({}) = 0
    BY <2>1, FS_EmptySet DEF RightCounts
  <2>3. /\ rw \in RwLocks /\ rw.read_mutex = Free /\ rw.write_mutex = Free /\ rw.num_readers = 0
    BY <1>1 DEF LocksInit, RwLocks
  <2>4. RwIInv
    BY <2>1, <2>2, <2>3, LockNames DEF RwIInv, RwSound
  <2>5. aml \in AmlMutex /\ aml.owner = Free
    BY <1>1 DEF LocksInit, AmlMutex
  <2>6. facs \in FacsWord /\ ~facs.owned /\ facs.owner = Free
    BY <1>1 DEF LocksInit, FacsWord
  <2>7. gl \in GlFields
    BY <1>1 DEF LocksInit, GlFields
  <2> QED
    BY <2>1, <2>4, <2>5, <2>6, <2>7, GlNames
       DEF GlIInv, GlTypes, Holders, FacsOwner, NoLostRelease, At, Holding
<1>2. ASSUME RwIInv, GlIInv PROVE LocksAreSound
  <2>1. WriterIsAlone
    BY <1>2, LockNames DEF RwIInv, RwSound, WriterIsAlone, At
  <2> QED
    BY <1>2, <2>1, SomebodyGoesOn DEF LocksAreSound, GlIInv
<1> QED
  BY <1>1, <1>2, LocksStep, PTL

(***************************************************************************)
(* Tables.  The count of a table is what its users hold until it reaches   *)
(* its maximum, where it stays; a table with references, or one that was   *)
(* never mapped by uACPI, has a pointer; and what was executed is marked.  *)
(***************************************************************************)
Signatures == {Firmware_Table[i].sig : i \in 1 .. Len(Firmware_Table)} \cup {"FACS", "SSDT"}

TableRec ==
    [sig : Signatures, bad : BOOLEAN, flags : SUBSET {"LOADED", "CSUM_VERIFIED", "INVALID"},
     origin : {"FIRMWARE_PHYSICAL", "HOST_PHYSICAL", "HOST_VIRTUAL"}, refs : 0 .. MaxRefs,
     ptr : {"null", "mapped", "virtual"}]

Kept(t, h, l) ==
    /\ t \in TableRec /\ h \in Nat /\ l \in 0 .. 1
    /\ t.refs > 0 \/ ~IsPhysical(t) => t.ptr # "null"
    /\ t.refs < MaxRefs => h = t.refs
    /\ l = 1 => "LOADED" \in t.flags

KeptAll(ts, hs, ls) ==
    /\ ts \in Seq(TableRec) /\ hs \in Seq(Nat) /\ ls \in Seq(0 .. 1)
    /\ Len(hs) = Len(ts) /\ Len(ls) = Len(ts)
    /\ \A i \in 1 .. Len(ts) : Kept(ts[i], hs[i], ls[i])

LoadsHold(lg, hs) == \A i \in lg : i \in 1 .. Len(hs) /\ hs[i] > 0

WalkIsInside ==
    /\ walk \in [left : Nat, cursor : Nat, len : Nat, pc : {"idle", "entry"}]
    /\ SubtablesInside

TablesIInv ==
    /\ KeptAll(tables, held, loads) /\ LoadsHold(loading, held)
    /\ level \in {"none", "early", "online"} /\ facsPtr \in {"null", "table", "garbage"}
    /\ level = "none" => tables = <<>> /\ loading = {}
    /\ WalkIsInside

\* A table that was just installed; its references are its installer's.
Fresh(t) == Kept(t, t.refs, 0)

\* One reference more, or a table that cannot be referenced.
LEMMA RefKeeps ==
    ASSUME NEW t, NEW h, NEW l, Kept(t, h, l)
    PROVE  /\ table_ref_unlocked(t).ok => Kept(table_ref_unlocked(t).t, h + 1, l)
           /\ ~table_ref_unlocked(t).ok => Kept(table_ref_unlocked(t).t, h, l)
<1> DEFINE first == t.refs = 0
           map == first /\ IsPhysical(t)
           verify == map /\ "CSUM_VERIFIED" \notin t.flags
           r == table_ref_unlocked(t)
<1>1. MaxRefs \in Nat /\ MaxRefs > 0
  BY TablesAssumption
<1>2. /\ t \in TableRec /\ h \in Nat /\ l \in 0 .. 1
      /\ t.refs > 0 \/ ~IsPhysical(t) => t.ptr # "null"
      /\ t.refs < MaxRefs => h = t.refs
      /\ l = 1 => "LOADED" \in t.flags
  BY DEF Kept
<1>3. /\ t.refs \in 0 .. MaxRefs /\ t.flags \subseteq {"LOADED", "CSUM_VERIFIED", "INVALID"}
  BY <1>2 DEF TableRec
<1>4. CASE first /\ "INVALID" \in t.flags
  <2>1. r = [t |-> t, ok |-> FALSE]
    BY <1>4 DEF table_ref_unlocked
  <2> QED
    BY <2>1
<1>5. CASE ~(first /\ "INVALID" \in t.flags) /\ verify /\ ~ChecksumOk(t)
  <2>1. r = [t |-> [t EXCEPT !.ptr = "null", !.flags = @ \cup {"INVALID"}], ok |-> FALSE]
    BY <1>5 DEF table_ref_unlocked
  <2>2. r.ok = FALSE /\ r.t = [t EXCEPT !.ptr = "null", !.flags = @ \cup {"INVALID"}]
    BY <2>1
  <2>3. r.t \in TableRec /\ r.t.refs = t.refs /\ r.t.flags = t.flags \cup {"INVALID"} /\ r.t.origin = t.origin
    BY <1>2, <1>3, <2>2, ZenonT(60) DEF TableRec
  <2> QED
    BY <1>1, <1>2, <1>5, <2>2, <2>3 DEF Kept, IsPhysical
<1>6. CASE ~(first /\ "INVALID" \in t.flags) /\ ~(verify /\ ~ChecksumOk(t))
  <2> DEFINE p == IF map THEN "mapped" ELSE t.ptr
             fl == IF verify THEN t.flags \cup {"CSUM_VERIFIED"} ELSE t.flags
  <2>1. r.ok = TRUE /\ r.t = [t EXCEPT !.refs = OneMore(t.refs), !.ptr = p, !.flags = fl]
    BY <1>6 DEF table_ref_unlocked
  <2>2. OneMore(t.refs) \in 1 .. MaxRefs /\ (OneMore(t.refs) < MaxRefs => OneMore(t.refs) = h + 1)
    BY <1>1, <1>2, <1>3 DEF OneMore
  <2>3. p \in {"null", "mapped", "virtual"} /\ p # "null"
    BY <1>2, <1>3 DEF TableRec
  <2>4. fl \subseteq {"LOADED", "CSUM_VERIFIED", "INVALID"} /\ t.flags \subseteq fl
    BY <1>3
  <2> HIDE DEF p, fl
  <2>5. r.t \in TableRec /\ r.t.refs = OneMore(t.refs) /\ r.t.flags = fl /\ r.t.ptr = p
    <3>1. PICK m : m = OneMore(t.refs)
      OBVIOUS
    <3>2. m \in 0 .. MaxRefs
      BY <1>1, <2>2, <3>1
    <3>3. PICK u : u = [t EXCEPT !.refs = m, !.ptr = p, !.flags = fl]
      OBVIOUS
    <3>4. u \in TableRec /\ u.refs = m /\ u.flags = fl /\ u.ptr = p
      BY <1>2, <2>3, <2>4, <3>2, <3>3 DEF TableRec
    <3> QED
      BY <2>1, <3>1, <3>3, <3>4
  <2> QED
    BY <1>2, <2>1, <2>2, <2>3, <2>4, <2>5 DEF Kept
<1> QED
  BY <1>4, <1>5, <1>6

\* One reference less: the last one unmaps a physical table.
LEMMA UnrefKeeps ==
    ASSUME NEW t, NEW h, NEW l, Kept(t, h, l), h > 0
    PROVE  Kept(table_unref_unlocked(t), h - 1, l)
<1> DEFINE u == table_unref_unlocked(t)
<1>1. MaxRefs \in Nat /\ MaxRefs > 0
  BY TablesAssumption
<1>2. /\ t \in TableRec /\ h \in Nat /\ l \in 0 .. 1
      /\ t.refs > 0 \/ ~IsPhysical(t) => t.ptr # "null"
      /\ t.refs < MaxRefs => h = t.refs
      /\ l = 1 => "LOADED" \in t.flags
  BY DEF Kept
<1>3. t.refs \in 0 .. MaxRefs /\ t.refs # 0 /\ h - 1 \in Nat
  BY <1>1, <1>2 DEF TableRec
<1>4. CASE t.refs = MaxRefs
  BY <1>1, <1>2, <1>3, <1>4 DEF table_unref_unlocked, Kept
<1>5. CASE t.refs # MaxRefs
  <2> DEFINE p == IF t.refs = 1 /\ IsPhysical(t) THEN "null" ELSE t.ptr
  <2>1. u = [t EXCEPT !.refs = t.refs - 1, !.ptr = p]
    BY <1>3, <1>5 DEF table_unref_unlocked
  <2>2. t.refs - 1 \in 0 .. MaxRefs /\ t.refs < MaxRefs
    BY <1>1, <1>3, <1>5
  <2>3. p \in {"null", "mapped", "virtual"}
    BY <1>2 DEF TableRec
  <2>4. (t.refs - 1 > 0 \/ ~IsPhysical(t)) => p # "null"
    BY <1>2, <1>3
  <2> HIDE DEF p
  <2>5. u \in TableRec /\ u.refs = t.refs - 1 /\ u.ptr = p /\ u.flags = t.flags /\ u.origin = t.origin
    BY <1>2, <2>1, <2>2, <2>3 DEF TableRec
  <2>6. IsPhysical(u) <=> IsPhysical(t)
    BY <2>5 DEF IsPhysical
  <2>7. u.refs < MaxRefs => h - 1 = u.refs
    BY <1>2, <2>2, <2>5
  <2> QED
    BY <1>2, <1>3, <2>4, <2>5, <2>6, <2>7 DEF Kept
<1> QED
  BY <1>4, <1>5

\* A table that is marked.
LEMMA MarkKeeps ==
    ASSUME NEW t, NEW h, NEW l, NEW m \in 0 .. 1, Kept(t, h, l)
    PROVE  Kept([t EXCEPT !.flags = @ \cup {"LOADED"}], h, m)
<1> DEFINE u == [t EXCEPT !.flags = @ \cup {"LOADED"}]
<1>1. /\ t \in TableRec /\ h \in Nat
      /\ t.refs > 0 \/ ~IsPhysical(t) => t.ptr # "null"
      /\ t.refs < MaxRefs => h = t.refs
  BY DEF Kept
<1>2. u \in TableRec /\ u.refs = t.refs /\ u.ptr = t.ptr /\ u.origin = t.origin /\ "LOADED" \in u.flags
  BY <1>1 DEF TableRec
<1> QED
  BY <1>1, <1>2 DEF Kept, IsPhysical

\* One table, its history and its count of loads change.
LEMMA OneChanges ==
    ASSUME NEW ts, NEW hs, NEW ls, KeptAll(ts, hs, ls), NEW i \in 1 .. Len(ts),
           NEW t, NEW h, NEW l, Kept(t, h, l)
    PROVE  KeptAll([ts EXCEPT ![i] = t], [hs EXCEPT ![i] = h], [ls EXCEPT ![i] = l])
<1>1. /\ ts \in Seq(TableRec) /\ hs \in Seq(Nat) /\ ls \in Seq(0 .. 1)
      /\ Len(hs) = Len(ts) /\ Len(ls) = Len(ts) /\ Len(ts) \in Nat
      /\ t \in TableRec /\ h \in Nat /\ l \in 0 .. 1
  BY DEF KeptAll, Kept
<1>2. /\ [ts EXCEPT ![i] = t] \in Seq(TableRec) /\ Len([ts EXCEPT ![i] = t]) = Len(ts)
      /\ [hs EXCEPT ![i] = h] \in Seq(Nat) /\ Len([hs EXCEPT ![i] = h]) = Len(ts)
      /\ [ls EXCEPT ![i] = l] \in Seq(0 .. 1) /\ Len([ls EXCEPT ![i] = l]) = Len(ts)
  BY <1>1, ExceptSeq
<1>3. ASSUME NEW j \in 1 .. Len(ts)
      PROVE  Kept([ts EXCEPT ![i] = t][j], [hs EXCEPT ![i] = h][j], [ls EXCEPT ![i] = l][j])
  <2>1. /\ [ts EXCEPT ![i] = t][j] = (IF j = i THEN t ELSE ts[j])
        /\ [hs EXCEPT ![i] = h][j] = (IF j = i THEN h ELSE hs[j])
        /\ [ls EXCEPT ![i] = l][j] = (IF j = i THEN l ELSE ls[j])
    BY <1>1, ExceptSeq
  <2>2. Kept(ts[j], hs[j], ls[j])
    BY DEF KeptAll
  <2> QED
    BY <2>1, <2>2
<1> QED
  BY <1>2, <1>3 DEF KeptAll

(***************************************************************************)
(* Installation.                                                           *)
(***************************************************************************)
\* us is ts and tables that were just installed.
Grown(ts, us) ==
    /\ us \in Seq(TableRec) /\ Len(us) >= Len(ts)
    /\ \A i \in 1 .. Len(ts) : us[i] = ts[i]
    /\ \A i \in Len(ts) + 1 .. Len(us) : Fresh(us[i])

FirmwareTable == [sig : Signatures, bad : BOOLEAN]
Origins == {"FIRMWARE_PHYSICAL", "HOST_PHYSICAL", "HOST_VIRTUAL"}

LEMMA NewTable ==
    ASSUME NEW f \in FirmwareTable, NEW fl \in SUBSET {"LOADED", "CSUM_VERIFIED", "INVALID"},
           NEW o \in Origins, NEW want \in BOOLEAN, NEW virt \in BOOLEAN, virt <=> o = "HOST_VIRTUAL"
    PROVE  /\ Fresh(Table(f, fl, o, want, virt)) /\ Table(f, fl, o, want, virt) \in TableRec
           /\ Table(f, fl, o, want, virt).refs = IF want THEN 1 ELSE 0
<1> DEFINE n == IF want THEN 1 ELSE 0
           p == IF virt THEN "virtual" ELSE IF want THEN "mapped" ELSE "null"
<1>1. PICK t : t = [sig |-> f.sig, bad |-> f.bad, flags |-> fl, origin |-> o, refs |-> n, ptr |-> p]
  OBVIOUS
<1>2. t = Table(f, fl, o, want, virt)
  BY <1>1 DEF Table
<1>3. MaxRefs \in Nat /\ MaxRefs > 0
  BY TablesAssumption
<1>4. n \in 0 .. MaxRefs /\ p \in {"null", "mapped", "virtual"} /\ (n > 0 \/ virt => p # "null") /\ n \in Nat
  BY <1>3
<1> HIDE DEF n, p
<1>5. t \in TableRec /\ t.refs = n /\ t.ptr = p /\ t.origin = o
  BY <1>1, <1>4 DEF TableRec, FirmwareTable, Origins
<1>6. ~IsPhysical(t) => virt
  BY <1>5 DEF IsPhysical, Origins
<1>7. Fresh(t)
  BY <1>4, <1>5, <1>6 DEF Fresh, Kept
<1> QED
  BY <1>2, <1>5, <1>7 DEF n

LEMMA AppendGrows ==
    ASSUME NEW ts \in Seq(TableRec), NEW t \in TableRec, Fresh(t)
    PROVE  Grown(ts, Append(ts, t)) /\ Len(Append(ts, t)) = Len(ts) + 1 /\ Append(ts, t)[Len(ts) + 1] = t
<1>1. Len(ts) \in Nat
  OBVIOUS
<1>2. /\ Append(ts, t) \in Seq(TableRec) /\ Len(Append(ts, t)) = Len(ts) + 1
      /\ \A i \in 1 .. Len(ts) : Append(ts, t)[i] = ts[i]
      /\ Append(ts, t)[Len(ts) + 1] = t
  BY AppendProperties
<1>3. \A i \in Len(ts) + 1 .. Len(Append(ts, t)) : i = Len(ts) + 1
  BY <1>1, <1>2
<1> QED
  BY <1>1, <1>2, <1>3 DEF Grown

\* What is installed joins the end of the array, without references unless wanted.
Installs(ts, us, want) ==
    /\ Grown(ts, us) /\ Len(us) <= Len(ts) + 1
    /\ ~want => \A i \in Len(ts) + 1 .. Len(us) : us[i].refs = 0

LEMMA SelfGrows ==
    ASSUME NEW ts \in Seq(TableRec), NEW want
    PROVE  Installs(ts, ts, want)
<1>1. Len(ts) \in Nat /\ Len(ts) + 1 .. Len(ts) = {}
  OBVIOUS
<1> QED
  BY <1>1 DEF Installs, Grown

LEMMA VerifyInstalls ==
    ASSUME NEW ts \in Seq(TableRec), NEW early, NEW f \in FirmwareTable, NEW o \in Origins,
           NEW want \in BOOLEAN, NEW virt \in BOOLEAN, virt <=> o = "HOST_VIRTUAL"
    PROVE  Installs(ts, verify_and_install_table(ts, early, f, o, want, virt).ts, want)
<1> DEFINE now == want \/ f.sig = "FADT"
           fl == IF f.sig = "FACS" \/ now THEN {"CSUM_VERIFIED"} ELSE {}
           t == Table(f, fl, o, want, virt)
           us == verify_and_install_table(ts, early, f, o, want, virt).ts
<1>1. us = ts \/ us = Append(ts, t)
  BY DEF verify_and_install_table
<1>2. fl \in SUBSET {"LOADED", "CSUM_VERIFIED", "INVALID"}
  OBVIOUS
<1> HIDE DEF fl
<1>3. Fresh(t) /\ t \in TableRec /\ t.refs = IF want THEN 1 ELSE 0
  BY <1>2, NewTable
<1> SUFFICES Installs(ts, us, want)
  OBVIOUS
<1> HIDE DEF t, us
<1>4. Grown(ts, Append(ts, t)) /\ Len(Append(ts, t)) = Len(ts) + 1 /\ Append(ts, t)[Len(ts) + 1] = t
  BY <1>3, AppendGrows
<1>5. Len(ts) \in Nat /\ \A i \in Len(ts) + 1 .. Len(ts) + 1 : i = Len(ts) + 1
  OBVIOUS
<1>6. CASE us = Append(ts, t)
  BY <1>3, <1>4, <1>5, <1>6 DEF Installs
<1>7. CASE us = ts
  BY <1>7, SelfGrows
<1> QED
  BY <1>1, <1>6, <1>7

LEMMA PhysicalInstalls ==
    ASSUME NEW ts \in Seq(TableRec), NEW early, NEW f \in FirmwareTable,
           NEW o \in {"FIRMWARE_PHYSICAL", "HOST_PHYSICAL"}, NEW want \in BOOLEAN, NEW d
    PROVE  Installs(ts, table_install_physical(ts, early, f, o, want, d).ts, want)
<1> DEFINE us == table_install_physical(ts, early, f, o, want, d).ts
<1>1. \/ us = ts
      \/ us = verify_and_install_table(ts, early, f, "HOST_VIRTUAL", want, TRUE).ts
      \/ us = verify_and_install_table(ts, early, f, "HOST_PHYSICAL", want, FALSE).ts
      \/ us = verify_and_install_table(ts, early, f, o, want, FALSE).ts
  BY DEF table_install_physical
<1> HIDE DEF us
<1>2. /\ Installs(ts, verify_and_install_table(ts, early, f, "HOST_VIRTUAL", want, TRUE).ts, want)
      /\ Installs(ts, verify_and_install_table(ts, early, f, "HOST_PHYSICAL", want, FALSE).ts, want)
      /\ Installs(ts, verify_and_install_table(ts, early, f, o, want, FALSE).ts, want)
  BY VerifyInstalls DEF Origins
<1> QED
  BY <1>1, <1>2, SelfGrows DEF us

\* Tables without references.
Unused == {us \in Seq(TableRec) : \A i \in 1 .. Len(us) : Fresh(us[i]) /\ us[i].refs = 0}

LEMMA UnusedGrows ==
    ASSUME NEW ts \in Unused, NEW us, Installs(ts, us, FALSE)
    PROVE  us \in Unused
<1>1. Len(ts) \in Nat /\ ts \in Seq(TableRec) /\ us \in Seq(TableRec) /\ Len(us) \in Nat
  BY DEF Unused, Installs, Grown
<1>2. \A i \in 1 .. Len(us) : i \in 1 .. Len(ts) \/ i \in Len(ts) + 1 .. Len(us)
  BY <1>1
<1> QED
  BY <1>1, <1>2 DEF Unused, Installs, Grown

\* The loop over the XSDT leaves tables without references.
LEMMA XsdtIsUnused ==
    ASSUME NEW early, NEW ds
    PROVE  initialize_from_rsdp(early, ds) \in Unused
<1> DEFINE n == Len(Firmware_Table)
           Put(us, i) == table_install_physical(us, early, Firmware_Table[i],
                                                "FIRMWARE_PHYSICAL", FALSE, ds[i]).ts
           Rec(f) == f = [i \in 0 .. n |-> IF i = 0 THEN <<>> ELSE Put(f[i - 1], i)]
           G == [i \in 1 .. n |-> [us \in Unused |-> Put(us, i)]]
<1>1. n \in Nat /\ \A i \in 1 .. n : Firmware_Table[i] \in FirmwareTable
  <2>1. n \in Nat /\ \A i \in 1 .. n : Firmware_Table[i] \in [sig : STRING, bad : BOOLEAN]
    BY TablesAssumption, LenProperties, ElementOfSeq
  <2>2. ASSUME NEW i \in 1 .. n PROVE Firmware_Table[i] \in FirmwareTable
    <3>1. Firmware_Table[i].sig \in Signatures
      BY DEF Signatures
    <3> QED
      BY <2>1, <3>1 DEF FirmwareTable
  <2> QED
    BY <2>1, <2>2
<1>2. XsdtUpTo(early, ds) = CHOOSE f : Rec(f)
  BY DEF XsdtUpTo
<1>3. ASSUME NEW i \in 1 .. n, NEW us \in Unused PROVE Put(us, i) \in Unused
  <2>1. us \in Seq(TableRec)
    BY DEF Unused
  <2>2. Installs(us, Put(us, i), FALSE)
    BY <1>1, <2>1, PhysicalInstalls
  <2> HIDE DEF Put
  <2> QED
    BY <2>2, UnusedGrows
<1>4. <<>> \in Unused
  BY DEF Unused
<1> HIDE DEF n, Put
<1>5. G \in [1 .. n -> [Unused -> Unused]]
  BY <1>3
<1> HIDE DEF G
<1>6. PICK f \in [0 .. n -> Unused] : f[0] = <<>> /\ \A i \in 1 .. n : f[i] = G[i][f[i - 1]]
  <2>1. \E f : Repeats(f, n, Unused, G, <<>>)
    BY <1>1, <1>4, <1>5, Iteration
  <2> QED
    BY <2>1 DEF Repeats
<1>7. Rec(f)
  <2>1. \A i \in 1 .. n : i - 1 \in 0 .. n
    BY <1>1
  <2>2. \A i \in 0 .. n : f[i] = IF i = 0 THEN <<>> ELSE Put(f[i - 1], i)
    <3>1. \A i \in 1 .. n : f[i - 1] \in Unused
      BY <1>6, <2>1
    <3>2. \A i \in 1 .. n, us \in Unused : G[i][us] = Put(us, i)
      BY DEF G
    <3> QED
      BY <1>1, <1>6, <3>1, <3>2
  <2> QED
    BY <1>6, <2>2
<1>8. PICK x : x = XsdtUpTo(early, ds) /\ Rec(x)
  BY <1>2, <1>7
<1>9. x[0] \in Unused /\ \A i \in 1 .. n : x[i - 1] \in Unused => x[i] \in Unused
  BY <1>1, <1>3, <1>4, <1>8
<1>10. \A i \in 0 .. n : x[i] \in Unused
  BY <1>1, <1>9, StaysIn, Zenon
<1>11. n \in 0 .. n
  BY <1>1
<1> QED
  BY <1>8, <1>10, <1>11 DEF initialize_from_rsdp, n

LEMMA AllChange ==
    ASSUME NEW n \in Nat, NEW us \in [1 .. n -> TableRec], NEW vs \in [1 .. n -> Nat],
           NEW ws \in [1 .. n -> 0 .. 1], \A i \in 1 .. n : Kept(us[i], vs[i], ws[i])
    PROVE  KeptAll(us, vs, ws) /\ Len(us) = n /\ Len(vs) = n
<1>1. us \in Seq(TableRec) /\ Len(us) = n
  OBVIOUS
<1>2. vs \in Seq(Nat) /\ Len(vs) = n
  OBVIOUS
<1>3. ws \in Seq(0 .. 1) /\ Len(ws) = n
  OBVIOUS
<1> QED
  BY <1>1, <1>2, <1>3 DEF KeptAll

\* The history follows the array.
LEMMA InstallKeeps ==
    ASSUME TablesIInv, NEW ts, Grown(tables, ts), Install(ts)
    PROVE  KeptAll(tables', held', loads') /\ LoadsHold(loading, held')
<1>1. /\ tables \in Seq(TableRec) /\ held \in Seq(Nat) /\ loads \in Seq(0 .. 1)
      /\ Len(held) = Len(tables) /\ Len(loads) = Len(tables) /\ Len(tables) \in Nat
      /\ \A i \in 1 .. Len(tables) : Kept(tables[i], held[i], loads[i])
      /\ \A i \in 1 .. Len(tables) : held[i] \in Nat /\ loads[i] \in 0 .. 1
  BY DEF TablesIInv, KeptAll, Kept
<1>2. /\ ts \in Seq(TableRec) /\ Len(ts) \in Nat /\ Len(tables) <= Len(ts)
      /\ \A i \in 1 .. Len(tables) : ts[i] = tables[i]
      /\ \A i \in Len(tables) + 1 .. Len(ts) : Fresh(ts[i])
  BY DEF Grown
<1> DEFINE n == Len(ts)
           k == Len(tables)
           hs == [i \in 1 .. n |-> IF i <= k THEN held[i] ELSE ts[i].refs]
           ls == [i \in 1 .. n |-> IF i <= k THEN loads[i] ELSE 0]
<1>3. tables' = ts /\ held' = hs /\ loads' = ls
  BY <1>1 DEF Install, Counted
<1>4. ASSUME NEW i \in 1 .. n
      PROVE  /\ Kept(ts[i], hs[i], ls[i]) /\ ts[i] \in TableRec /\ hs[i] \in Nat /\ ls[i] \in 0 .. 1
  <2>1. CASE i <= k
    <3>1. i \in 1 .. k /\ ts[i] = tables[i] /\ hs[i] = held[i] /\ ls[i] = loads[i]
      BY <1>1, <1>2, <2>1
    <3>2. Kept(ts[i], hs[i], ls[i])
      BY <1>1, <3>1
    <3> QED
      BY <3>2 DEF Kept
  <2>2. CASE ~(i <= k)
    <3>1. i \in k + 1 .. n /\ hs[i] = ts[i].refs /\ ls[i] = 0
      BY <1>1, <1>2, <2>2
    <3>2. Kept(ts[i], hs[i], ls[i])
      BY <1>2, <3>1 DEF Fresh
    <3> QED
      BY <3>2 DEF Kept
  <2> QED
    BY <2>1, <2>2
<1>5. ts \in [1 .. n -> TableRec]
  BY <1>2
<1>6. hs \in [1 .. n -> Nat] /\ ls \in [1 .. n -> 0 .. 1] /\ n \in Nat
  BY <1>2, <1>4
<1>7. \A i \in 1 .. k : hs[i] = held[i] /\ i \in 1 .. n
  BY <1>1, <1>2
<1> HIDE DEF hs, ls, n
<1>8. KeptAll(ts, hs, ls) /\ Len(hs) = n
  BY <1>4, <1>5, <1>6, AllChange, ZenonT(60)
<1>9. LoadsHold(loading, hs)
  BY <1>1, <1>7, <1>8 DEF TablesIInv, LoadsHold, k
<1> QED
  BY <1>3, <1>8, <1>9

LEMMA GrownTwice ==
    ASSUME NEW ts \in Unused, NEW us, Installs(ts, us, TRUE)
    PROVE  Grown(<<>>, us)
<1>1. Len(ts) \in Nat /\ ts \in Seq(TableRec) /\ us \in Seq(TableRec) /\ Len(us) \in Nat
  BY DEF Unused, Installs, Grown
<1>2. \A i \in 1 .. Len(us) : i \in 1 .. Len(ts) \/ i \in Len(ts) + 1 .. Len(us)
  BY <1>1
<1>3. \A i \in 1 .. Len(us) : Fresh(us[i])
  BY <1>2 DEF Unused, Installs, Grown
<1>4. Len(<<>>) = 0
  OBVIOUS
<1> QED
  BY <1>1, <1>3, <1>4 DEF Grown

LEMMA EarlyStep ==
    ASSUME TablesIInv, NEW ds, uacpi_setup_early_table_access(ds)
    PROVE  TablesIInv'
<1>1. /\ level' = "early" /\ tables' = initialize_from_rsdp(TRUE, ds)
      /\ held' = [i \in 1 .. Len(tables') |-> 0] /\ loads' = [i \in 1 .. Len(tables') |-> 0]
      /\ loading = {} /\ UNCHANGED <<loading, mutex, facsPtr, walk>>
  BY DEF uacpi_setup_early_table_access, TablesIInv
<1>2. tables' \in Unused
  BY <1>1, XsdtIsUnused
<1>3. /\ tables' \in Seq(TableRec) /\ Len(tables') \in Nat
      /\ \A i \in 1 .. Len(tables') : Kept(tables'[i], 0, 0)
  BY <1>2 DEF Unused, Fresh
<1> DEFINE n == Len(tables')
<1>4. tables' \in [1 .. n -> TableRec] /\ n \in Nat
  BY <1>3
<1>5. held' \in [1 .. n -> Nat] /\ loads' \in [1 .. n -> 0 .. 1]
      /\ \A i \in 1 .. n : held'[i] = 0 /\ loads'[i] = 0
  BY <1>1
<1>6. PICK us, vs, ws, m : us = tables' /\ vs = held' /\ ws = loads' /\ m = n
  OBVIOUS
<1>7. KeptAll(us, vs, ws)
  BY <1>3, <1>4, <1>5, <1>6, AllChange
<1> QED
  BY <1>1, <1>6, <1>7 DEF TablesIInv, LoadsHold, WalkIsInside, SubtablesInside

LEMMA InitTablesStep ==
    ASSUME TablesIInv, NEW ds, NEW d, uacpi_initialize_tables(ds, d)
    PROVE  TablesIInv'
<1> DEFINE ts == IF level = "early" THEN tables ELSE initialize_from_rsdp(FALSE, ds)
           facsTable == [sig |-> "FACS", bad |-> FALSE]
           r == table_install_physical(ts, FALSE, facsTable, "FIRMWARE_PHYSICAL", TRUE, d)
<1>1. /\ level \in {"none", "early"} /\ level' = "online" /\ Install(r.ts)
      /\ facsPtr' = IF r.installed THEN "table" ELSE "garbage"
      /\ UNCHANGED <<loading, mutex, walk>>
  BY DEF uacpi_initialize_tables
<1>2. facsTable \in FirmwareTable
  BY DEF FirmwareTable, Signatures
<1>3. ts \in Seq(TableRec)
  BY XsdtIsUnused DEF TablesIInv, KeptAll, Unused
<1> HIDE DEF facsTable
<1>4. Installs(ts, r.ts, TRUE)
  BY <1>2, <1>3, PhysicalInstalls
<1>5. Grown(tables, r.ts)
  <2>1. CASE level = "early"
    BY <1>4, <2>1 DEF Installs
  <2>2. CASE level = "none"
    <3>1. tables = <<>> /\ ts = initialize_from_rsdp(FALSE, ds)
      BY <2>2 DEF TablesIInv
    <3> QED
      BY <1>4, <3>1, XsdtIsUnused, GrownTwice
  <2> QED
    BY <1>1, <2>1, <2>2
<1> HIDE DEF r, ts
<1>6. KeptAll(tables', held', loads') /\ LoadsHold(loading, held')
  BY <1>1, <1>5, InstallKeeps
<1> QED
  BY <1>1, <1>6 DEF TablesIInv, WalkIsInside, SubtablesInside

LEMMA HostInstallStep ==
    ASSUME TablesIInv, NEW want \in BOOLEAN,
           uacpi_table_install(HostTable, want) \/ uacpi_table_install_physical(HostTable, want)
    PROVE  TablesIInv'
<1> DEFINE v == table_install_with_origin(tables, HostTable, want).ts
           p == table_install_physical(tables, FALSE, HostTable, "HOST_PHYSICAL", want, "ALLOW").ts
<1>1. /\ UNCHANGED <<level, loading, facsPtr, walk>> /\ level = "online"
      /\ Install(v) \/ Install(p)
  BY DEF uacpi_table_install, uacpi_table_install_physical
<1>2. HostTable \in FirmwareTable /\ tables \in Seq(TableRec)
  BY DEF HostTable, FirmwareTable, Signatures, TablesIInv, KeptAll
<1>3. Grown(tables, v)
  BY <1>2, VerifyInstalls DEF table_install_with_origin, Installs, Origins
<1>4. Grown(tables, p)
  BY <1>2, PhysicalInstalls DEF Installs
<1> HIDE DEF v, p
<1>5. KeptAll(tables', held', loads') /\ LoadsHold(loading, held')
  BY <1>1, <1>3, <1>4, InstallKeeps
<1> QED
  BY <1>1, <1>5 DEF TablesIInv, WalkIsInside, SubtablesInside

(***************************************************************************)
(* References and loads.                                                   *)
(***************************************************************************)
\* A step that changes one table and leaves the rest of the state alone.
LEMMA OneStep ==
    ASSUME TablesIInv, NEW i \in 1 .. Len(tables), NEW t, NEW h, NEW l, Kept(t, h, l),
           tables' = [tables EXCEPT ![i] = t], held' = [held EXCEPT ![i] = h],
           loads' = [loads EXCEPT ![i] = l], loading' \subseteq loading \cup {i},
           i \in loading' => h > 0, UNCHANGED <<level, facsPtr, walk>>
    PROVE  TablesIInv'
<1>1. KeptAll(tables, held, loads) /\ Kept(t, h, l)
  BY DEF TablesIInv
<1>2. PICK us, vs, ws : /\ us = [tables EXCEPT ![i] = t] /\ vs = [held EXCEPT ![i] = h]
                        /\ ws = [loads EXCEPT ![i] = l]
  OBVIOUS
<1>3. KeptAll(us, vs, ws)
  BY <1>1, <1>2, OneChanges
<1>4. /\ held \in Seq(Nat) /\ Len(held) = Len(tables) /\ Len(vs) = Len(held)
      /\ \A j \in 1 .. Len(held) : vs[j] = IF j = i THEN h ELSE held[j]
  BY <1>1, <1>2 DEF KeptAll, Kept
<1>5. LoadsHold(loading', vs)
  BY <1>4 DEF TablesIInv, LoadsHold
<1>6. level # "none"
  BY DEF TablesIInv
<1>7. KeptAll(tables', held', loads') /\ LoadsHold(loading', held')
  BY <1>2, <1>3, <1>5
<1> QED
  BY <1>6, <1>7 DEF TablesIInv, WalkIsInside, SubtablesInside

LEMMA HeldIs ==
    ASSUME TablesIInv, NEW i \in DOMAIN tables
    PROVE  /\ i \in 1 .. Len(tables) /\ Kept(tables[i], held[i], loads[i])
           /\ held \in Seq(Nat) /\ loads \in Seq(0 .. 1) /\ tables \in Seq(TableRec)
           /\ Len(held) = Len(tables) /\ Len(loads) = Len(tables) /\ Len(tables) \in Nat
           /\ held[i] \in Nat /\ loads[i] \in 0 .. 1
           /\ loads = [loads EXCEPT ![i] = loads[i]]
           /\ held = [held EXCEPT ![i] = held[i]]
<1>1. /\ held \in Seq(Nat) /\ loads \in Seq(0 .. 1) /\ tables \in Seq(TableRec)
      /\ Len(held) = Len(tables) /\ Len(loads) = Len(tables) /\ Len(tables) \in Nat
      /\ \A j \in 1 .. Len(tables) : Kept(tables[j], held[j], loads[j])
  BY DEF TablesIInv, KeptAll
<1>2. i \in 1 .. Len(tables)
  BY <1>1
<1> QED
  BY <1>1, <1>2 DEF Kept

LEMMA RefStep ==
    ASSUME TablesIInv, NEW i \in DOMAIN tables, uacpi_table_ref(i)
    PROVE  TablesIInv'
<1>1. PICK r : r = table_ref_unlocked(tables[i])
  OBVIOUS
<1>2. /\ tables' = [tables EXCEPT ![i] = r.t]
      /\ held' = [held EXCEPT ![i] = IF r.ok THEN held[i] + 1 ELSE held[i]]
      /\ loads' = loads /\ loading' = loading /\ UNCHANGED <<level, facsPtr, walk>>
  BY <1>1 DEF uacpi_table_ref
<1>3. PICK h : h = IF r.ok THEN held[i] + 1 ELSE held[i]
  OBVIOUS
<1>4. Kept(r.t, h, loads[i]) /\ h >= held[i]
  BY <1>1, <1>3, HeldIs, RefKeeps
<1>5. i \in loading' => h > 0
  BY <1>2, <1>3, <1>4, HeldIs DEF TablesIInv, LoadsHold
<1>6. i \in 1 .. Len(tables) /\ loads' = [loads EXCEPT ![i] = loads[i]] /\ loading' \subseteq loading \cup {i}
  BY <1>2, HeldIs
<1>7. held' = [held EXCEPT ![i] = h]
  BY <1>2, <1>3
<1> QED
  BY <1>2, <1>4, <1>5, <1>6, <1>7, OneStep, ZenonT(60)

LEMMA UnrefStep ==
    ASSUME TablesIInv, NEW i \in DOMAIN tables, uacpi_table_unref(i) \/ LoadReturns(i)
    PROVE  TablesIInv'
<1>1. PICK u, h : u = table_unref_unlocked(tables[i]) /\ h = held[i] - 1
  OBVIOUS
<1>2. /\ tables' = [tables EXCEPT ![i] = u] /\ held' = [held EXCEPT ![i] = h] /\ loads' = loads
      /\ UNCHANGED <<level, facsPtr, walk>>
  BY <1>1 DEF uacpi_table_unref, LoadReturns
<1>3. /\ loading' \subseteq loading
      /\ \/ i \in loading /\ i \notin loading'
         \/ HeldByUsers(i) > 0
  BY DEF uacpi_table_unref, LoadReturns
<1>4. held[i] > 0 /\ (i \in loading' => h > 0)
  BY <1>1, <1>3, HeldIs DEF HeldByUsers, TablesIInv, LoadsHold
<1>5. Kept(u, h, loads[i])
  BY <1>1, <1>4, HeldIs, UnrefKeeps
<1>6. i \in 1 .. Len(tables) /\ loads' = [loads EXCEPT ![i] = loads[i]] /\ loading' \subseteq loading \cup {i}
  BY <1>2, <1>3, HeldIs
<1> QED
  BY <1>2, <1>4, <1>5, <1>6, OneStep

LEMMA LoadStep ==
    ASSUME TablesIInv, NEW i \in DOMAIN tables, uacpi_table_load(i)
    PROVE  TablesIInv'
<1>1. PICK r : r = table_ref_unlocked(tables[i])
  OBVIOUS
<1>2. /\ UNCHANGED <<level, facsPtr, walk>> /\ "LOADED" \notin tables[i].flags
      /\ IF r.ok
         THEN /\ tables' = [tables EXCEPT ![i] = [r.t EXCEPT !.flags = @ \cup {"LOADED"}]]
              /\ loading' = loading \cup {i}
              /\ held' = [held EXCEPT ![i] = held[i] + 1]
              /\ loads' = [loads EXCEPT ![i] = loads[i] + 1]
         ELSE /\ tables' = [tables EXCEPT ![i] = r.t]
              /\ UNCHANGED <<loading, held, loads>>
  BY <1>1 DEF uacpi_table_load, NotLoaded
<1>3. loads[i] = 0 /\ loads[i] + 1 \in 0 .. 1 /\ held[i] + 1 > 0 /\ i \in 1 .. Len(tables)
  BY <1>2, HeldIs DEF Kept
<1>4. CASE r.ok
  <2>1. PICK t : t = [r.t EXCEPT !.flags = @ \cup {"LOADED"}]
    OBVIOUS
  <2>2. Kept(r.t, held[i] + 1, loads[i])
    BY <1>1, <1>4, HeldIs, RefKeeps
  <2>3. Kept(t, held[i] + 1, loads[i] + 1)
    BY <1>3, <2>1, <2>2, MarkKeeps
  <2>4. /\ tables' = [tables EXCEPT ![i] = t] /\ held' = [held EXCEPT ![i] = held[i] + 1]
        /\ loads' = [loads EXCEPT ![i] = loads[i] + 1] /\ loading' \subseteq loading \cup {i}
    BY <1>2, <1>4, <2>1
  <2> QED
    BY <1>2, <1>3, <2>3, <2>4, OneStep
<1>5. CASE ~r.ok
  <2>1. Kept(r.t, held[i], loads[i])
    BY <1>1, <1>5, HeldIs, RefKeeps
  <2>2. /\ tables' = [tables EXCEPT ![i] = r.t] /\ held' = [held EXCEPT ![i] = held[i]]
        /\ loads' = [loads EXCEPT ![i] = loads[i]] /\ loading' \subseteq loading \cup {i}
        /\ loading' = loading
    BY <1>2, <1>5, HeldIs
  <2>3. i \in loading' => held[i] > 0
    BY <2>2 DEF TablesIInv, LoadsHold
  <2> QED
    BY <1>2, <1>3, <2>1, <2>2, <2>3, OneStep
<1> QED
  BY <1>4, <1>5

LEMMA MarkStep ==
    ASSUME TablesIInv, NEW i \in DOMAIN tables, uacpi_table_mark_as_loaded(i)
    PROVE  TablesIInv'
<1>1. PICK t : t = [tables[i] EXCEPT !.flags = @ \cup {"LOADED"}]
  OBVIOUS
<1>2. /\ tables' = [tables EXCEPT ![i] = t] /\ UNCHANGED <<level, held, loads, loading, facsPtr, walk>>
  BY <1>1 DEF uacpi_table_mark_as_loaded
<1>3. Kept(t, held[i], loads[i])
  BY <1>1, HeldIs, MarkKeeps
<1>4. /\ i \in 1 .. Len(tables) /\ held' = [held EXCEPT ![i] = held[i]]
      /\ loads' = [loads EXCEPT ![i] = loads[i]] /\ loading' \subseteq loading \cup {i}
  BY <1>2, HeldIs
<1>5. i \in loading' => held[i] > 0
  BY <1>2 DEF TablesIInv, LoadsHold
<1>6. tables' = [tables EXCEPT ![i] = t] /\ UNCHANGED <<level, facsPtr, walk>>
  BY <1>2
<1> QED
  BY <1>3, <1>4, <1>5, <1>6, OneStep

(***************************************************************************)
(* Searches.  The first table that can be referenced is; those before it   *)
(* that match could not be.                                                *)
(***************************************************************************)
Good(S) == {i \in S : table_ref_unlocked(tables[i]).ok}
Hit(S) == IF Good(S) = {} THEN Len(tables) + 1
          ELSE CHOOSE i \in Good(S) : \A j \in Good(S) : i <= j

LEMMA HitIs ==
    ASSUME TablesIInv, NEW S, S \subseteq 1 .. Len(tables)
    PROVE  /\ Hit(S) \in Nat
           /\ \A j \in S : j <= Hit(S) => (table_ref_unlocked(tables[j]).ok <=> j = Hit(S))
           /\ Hit(S) \notin S => Hit(S) = Len(tables) + 1
<1>1. Len(tables) \in Nat
  BY DEF TablesIInv, KeptAll
<1>2. CASE Good(S) = {}
  <2>1. Hit(S) = Len(tables) + 1
    BY <1>2 DEF Hit
  <2>2. \A j \in S : ~table_ref_unlocked(tables[j]).ok /\ j \in 1 .. Len(tables)
    BY <1>2 DEF Good
  <2> QED
    BY <1>1, <2>1, <2>2
<1>3. CASE Good(S) # {}
  <2>1. Good(S) \subseteq Nat
    <3>1. \A x \in 1 .. Len(tables) : x \in Nat
      BY <1>1
    <3>2. Good(S) \subseteq S
      BY DEF Good
    <3> QED
      BY <3>1, <3>2
  <2>2. \E x \in Good(S) : \A y \in Good(S) : x <= y
    BY <1>3, <2>1, SmallestNumber
  <2>3. PICK x : x = Hit(S) /\ x \in Good(S) /\ \A y \in Good(S) : x <= y
    BY <1>3, <2>2 DEF Hit
  <2>4. x \in S /\ table_ref_unlocked(tables[x]).ok /\ x \in 1 .. Len(tables)
    BY <2>3 DEF Good
  <2>5. ASSUME NEW j \in S, j <= x
        PROVE  table_ref_unlocked(tables[j]).ok <=> j = x
    <3>1. CASE table_ref_unlocked(tables[j]).ok
      <4>1. j \in Good(S) /\ j \in Nat /\ x \in Nat
        BY <2>1, <2>3, <3>1 DEF Good
      <4> QED
        BY <2>3, <2>5, <3>1, <4>1
    <3>2. CASE ~table_ref_unlocked(tables[j]).ok
      BY <2>4, <3>2
    <3> QED
      BY <3>1, <3>2
  <2> QED
    BY <2>3, <2>4, <2>5
<1> QED
  BY <1>2, <1>3

Found(ts, S) == [i \in 1 .. Len(ts) |-> IF i \in S /\ i <= Hit(S) THEN table_ref_unlocked(ts[i]).t ELSE ts[i]]
HeldFor(hs, S) == [i \in 1 .. Len(hs) |-> IF i = Hit(S) THEN hs[i] + 1 ELSE hs[i]]

\* What a search among S makes of tables that are still as the search found them.
LEMMA SearchKeeps ==
    ASSUME TablesIInv, NEW S, S \subseteq 1 .. Len(tables), NEW ts, NEW hs,
           KeptAll(ts, hs, loads), Len(ts) = Len(tables), \A j \in S : ts[j] = tables[j]
    PROVE  /\ KeptAll(Found(ts, S), HeldFor(hs, S), loads) /\ Len(HeldFor(hs, S)) = Len(hs)
           /\ \A i \in 1 .. Len(hs) : HeldFor(hs, S)[i] >= hs[i]
<1>1. PICK n, us, vs, ls : n = Len(ts) /\ us = Found(ts, S) /\ vs = HeldFor(hs, S) /\ ls = loads
  OBVIOUS
<1>2. /\ n \in Nat /\ Len(hs) = n /\ Len(ts) = n /\ ls \in [1 .. n -> 0 .. 1]
      /\ \A i \in 1 .. n : Kept(ts[i], hs[i], ls[i]) /\ hs[i] \in Nat
  <2>1. /\ ts \in Seq(TableRec) /\ hs \in Seq(Nat) /\ ls \in Seq(0 .. 1)
        /\ Len(hs) = Len(ts) /\ Len(ls) = Len(ts)
        /\ \A i \in 1 .. Len(ts) : Kept(ts[i], hs[i], ls[i]) /\ hs[i] \in Nat
    BY <1>1 DEF KeptAll, Kept
  <2>2. n \in Nat /\ Len(hs) = n /\ Len(ts) = n /\ Len(ls) = n
    BY <1>1, <2>1, LenProperties
  <2>3. ls \in [1 .. n -> 0 .. 1]
    BY <2>1, <2>2, LenProperties
  <2>4. \A i \in 1 .. n : Kept(ts[i], hs[i], ls[i]) /\ hs[i] \in Nat
    BY <2>1, <2>2
  <2> QED
    BY <2>2, <2>3, <2>4
<1>3. /\ us = [i \in 1 .. n |-> IF i \in S /\ i <= Hit(S) THEN table_ref_unlocked(ts[i]).t ELSE ts[i]]
      /\ vs = [i \in 1 .. n |-> IF i = Hit(S) THEN hs[i] + 1 ELSE hs[i]]
  BY <1>1, <1>2 DEF Found, HeldFor
<1>4. /\ Hit(S) \in Nat
      /\ \A j \in S : j <= Hit(S) => (table_ref_unlocked(tables[j]).ok <=> j = Hit(S))
      /\ Hit(S) \notin S => Hit(S) = n + 1
  BY <1>1, HitIs
<1>5. ASSUME NEW i \in 1 .. n
      PROVE  Kept(us[i], vs[i], ls[i]) /\ us[i] \in TableRec /\ vs[i] \in Nat /\ vs[i] >= hs[i]
  <2>1. Kept(ts[i], hs[i], ls[i]) /\ hs[i] \in Nat
    BY <1>2
  <2>2. CASE i \in S /\ i <= Hit(S)
    <3>1. us[i] = table_ref_unlocked(ts[i]).t /\ vs[i] = IF i = Hit(S) THEN hs[i] + 1 ELSE hs[i]
      BY <1>3, <2>2
    <3>2. table_ref_unlocked(ts[i]).ok <=> i = Hit(S)
      BY <1>4, <2>2
    <3>3. Kept(us[i], vs[i], ls[i])
      BY <2>1, <3>1, <3>2, RefKeeps
    <3> QED
      BY <2>1, <3>1, <3>3 DEF Kept
  <2>3. CASE ~(i \in S /\ i <= Hit(S))
    <3>1. us[i] = ts[i] /\ i # Hit(S)
      BY <1>2, <1>3, <1>4, <2>3
    <3>2. vs[i] = hs[i]
      BY <1>3, <3>1
    <3> QED
      BY <2>1, <3>1, <3>2 DEF Kept
  <2> QED
    BY <2>2, <2>3
<1>6. us \in [1 .. n -> TableRec] /\ vs \in [1 .. n -> Nat]
  BY <1>3, <1>5
<1>7. KeptAll(us, vs, ls)
  BY <1>2, <1>5, <1>6, AllChange
<1>8. Len(vs) = n
  BY <1>2, <1>6
<1> QED
  BY <1>1, <1>2, <1>5, <1>7, <1>8

LEMMA FindStep ==
    ASSUME TablesIInv, NEW sig, find_table(1, sig)
    PROVE  TablesIInv'
<1>1. PICK S : S = Matching(1, sig)
  OBVIOUS
<1>2. /\ KeptAll(tables, held, loads) /\ LoadsHold(loading, held) /\ Len(tables) \in Nat
      /\ DOMAIN tables = 1 .. Len(tables) /\ DOMAIN held = 1 .. Len(held) /\ Len(held) = Len(tables)
  BY DEF TablesIInv, KeptAll
<1>3. S \subseteq 1 .. Len(tables)
  BY <1>1 DEF Matching
<1>4. /\ UNCHANGED <<level, loads, loading, facsPtr, walk>> /\ level # "none"
      /\ tables' = Found(tables, S) /\ held' = HeldFor(held, S)
  BY <1>1, <1>2 DEF find_table, Hit, Good, Found, HeldFor
<1>5. /\ KeptAll(tables', held', loads') /\ Len(held') = Len(held)
      /\ \A i \in 1 .. Len(held) : held'[i] >= held[i]
  BY <1>2, <1>3, <1>4, SearchKeeps
<1>6. \A i \in 1 .. Len(held) : held[i] \in Nat /\ held'[i] \in Nat
  BY <1>2, <1>5 DEF KeptAll
<1>7. LoadsHold(loading', held')
  BY <1>2, <1>4, <1>5, <1>6 DEF LoadsHold
<1> QED
  BY <1>4, <1>5, <1>7 DEF TablesIInv, WalkIsInside, SubtablesInside

LEMMA FindNextStep ==
    ASSUME TablesIInv, NEW i \in DOMAIN tables, uacpi_table_find_next_with_same_signature(i)
    PROVE  TablesIInv'
<1>1. PICK S : S = Matching(i + 1, tables[i].sig)
  OBVIOUS
<1>2. /\ KeptAll(tables, held, loads) /\ LoadsHold(loading, held) /\ Len(tables) \in Nat
      /\ tables \in Seq(TableRec) /\ held \in Seq(Nat)
      /\ DOMAIN tables = 1 .. Len(tables) /\ DOMAIN held = 1 .. Len(held) /\ Len(held) = Len(tables)
      /\ i \in 1 .. Len(tables)
  BY DEF TablesIInv, KeptAll
<1>3. S \subseteq 1 .. Len(tables) /\ i \notin S
  BY <1>1, <1>2 DEF Matching
<1>4. PICK u, h, ts, hs : /\ u = table_unref_unlocked(tables[i]) /\ h = held[i] - 1
                          /\ ts = [tables EXCEPT ![i] = u] /\ hs = [held EXCEPT ![i] = h]
  OBVIOUS
<1>5. HeldByUsers(i) > 0
  BY DEF uacpi_table_find_next_with_same_signature
<1>6. held[i] > 0 /\ (i \in loading => h > 0) /\ held[i] \in Nat /\ h \in Nat
  BY <1>4, <1>5, HeldIs DEF HeldByUsers
<1>7. Kept(u, h, loads[i]) /\ u \in TableRec
  BY <1>4, <1>6, HeldIs, UnrefKeeps DEF Kept
<1>8. KeptAll(ts, hs, loads)
  <2>1. KeptAll(ts, hs, [loads EXCEPT ![i] = loads[i]])
    BY <1>2, <1>4, <1>7, OneChanges
  <2> QED
    BY <2>1, HeldIs
<1>9. /\ Len(ts) = Len(tables) /\ Len(hs) = Len(held) /\ DOMAIN ts = 1 .. Len(ts)
      /\ \A j \in 1 .. Len(tables) : ts[j] = IF j = i THEN u ELSE tables[j]
      /\ \A j \in 1 .. Len(held) : hs[j] = IF j = i THEN h ELSE held[j]
  BY <1>2, <1>4, <1>6, <1>7
<1>10. \A j \in S : ts[j] = tables[j]
  BY <1>3, <1>9
<1>11. Hit(S) # i
  <2>1. Hit(S) \notin S => Hit(S) = Len(tables) + 1
    BY <1>3, HitIs
  <2>2. i # Len(tables) + 1
    BY <1>2
  <2> QED
    BY <1>3, <2>1, <2>2
<1>12. /\ UNCHANGED <<level, loads, loading, facsPtr, walk>> /\ level # "none"
       /\ tables' = [j \in DOMAIN ts |-> IF j \in S /\ j <= Hit(S) THEN table_ref_unlocked(ts[j]).t ELSE ts[j]]
       /\ held' = [j \in DOMAIN held |-> IF j = i THEN held[j] - 1
                                         ELSE IF j = Hit(S) THEN held[j] + 1 ELSE held[j]]
  BY <1>1, <1>4 DEF uacpi_table_find_next_with_same_signature, Hit, Good
<1>13. tables' = Found(ts, S)
  BY <1>9, <1>12 DEF Found
<1>14. held' = HeldFor(hs, S)
  BY <1>2, <1>4, <1>9, <1>11, <1>12 DEF HeldFor
<1>15. /\ KeptAll(tables', held', loads') /\ Len(held') = Len(hs)
       /\ \A j \in 1 .. Len(hs) : held'[j] >= hs[j]
  <2>1. /\ KeptAll(Found(ts, S), HeldFor(hs, S), loads) /\ Len(HeldFor(hs, S)) = Len(hs)
        /\ \A j \in 1 .. Len(hs) : HeldFor(hs, S)[j] >= hs[j]
    <3>1. S \subseteq 1 .. Len(tables) /\ Len(ts) = Len(tables)
      BY <1>3, <1>9
    <3> QED
      BY <1>8, <1>10, <3>1, SearchKeeps
  <2>2. loads' = loads
    BY <1>12
  <2> QED
    BY <1>13, <1>14, <2>1, <2>2
<1>16. \A j \in 1 .. Len(hs) : held'[j] \in Nat /\ hs[j] \in Nat
  BY <1>8, <1>15 DEF KeptAll
<1>17. LoadsHold(loading', held')
  <2> SUFFICES ASSUME NEW j \in loading PROVE j \in 1 .. Len(held') /\ held'[j] > 0
    BY <1>12 DEF LoadsHold
  <2>1. j \in 1 .. Len(held) /\ held[j] > 0
    BY <1>2 DEF LoadsHold
  <2>2. hs[j] > 0
    BY <1>6, <1>9, <2>1
  <2>3. j \in 1 .. Len(hs) /\ held'[j] >= hs[j] /\ held'[j] \in Nat /\ hs[j] \in Nat
    BY <1>9, <1>15, <1>16, <2>1
  <2> QED
    BY <1>15, <2>2, <2>3
<1> QED
  BY <1>12, <1>15, <1>17 DEF TablesIInv, WalkIsInside, SubtablesInside

(***************************************************************************)
(* The walk over subtables, and the invariant.                             *)
(***************************************************************************)
\* The difference of two lengths as a size_t.
LEMMA Remainder ==
    ASSUME NEW a \in 0 .. 1023, NEW b \in 1 .. 1023
    PROVE  (a - b) % 1024 = IF b <= a THEN a - b ELSE a - b + 1024
<1>1. PICK x \in Int : x = a - b
  OBVIOUS
<1>2. CASE x >= 0
  BY <1>1, <1>2
<1>3. CASE x < 0
  <2>1. x % 1024 = x + 1024
    BY <1>1, <1>3
  <2> QED
    BY <1>1, <1>3, <2>1
<1> QED
  BY <1>1, <1>2, <1>3

LEMMA SubtableStep ==
    ASSUME TablesIInv, SubtableNext
    PROVE  TablesIInv'
<1>1. UNCHANGED <<tables, level, held, loads, loading, mutex, facsPtr>>
  BY DEF SubtableNext, uacpi_for_each_subtable, NextSubtable, SubtablesDone
<1>2. /\ walk \in [left : Nat, cursor : Nat, len : Nat, pc : {"idle", "entry"}]
      /\ walk.pc = "entry" => walk.len > 0 /\ walk.cursor + walk.left = SubtableBytes
  BY DEF TablesIInv, WalkIsInside, SubtablesInside
<1>3. NoWalk \in [left : Nat, cursor : Nat, len : Nat, pc : {"idle", "entry"}] /\ NoWalk.pc = "idle"
  BY DEF NoWalk
<1>4. SubtableBytes \in 0 .. 1023 /\ SubtableHdr \subseteq 1 .. 1023
  BY TablesAssumption DEF WordSize
<1>5. ASSUME NEW h \in SubtableHdr, uacpi_for_each_subtable(h) PROVE WalkIsInside'
  <2> DEFINE left == (SubtableBytes - h) % WordSize
             pc == IF left > SubtableBytes THEN "idle" ELSE "entry"
  <2>1. walk' = [left |-> left, cursor |-> h, len |-> h, pc |-> pc]
    BY <1>5 DEF uacpi_for_each_subtable
  <2>2. h \in 1 .. 1023 /\ left = (SubtableBytes - h) % 1024
    BY <1>4 DEF WordSize
  <2>3. left \in Nat
    BY <1>4, <2>2, SMTT(30)
  <2>4. CASE h <= SubtableBytes
    <3>1. left = SubtableBytes - h
      BY <1>4, <2>2, <2>4, Remainder
    <3> HIDE DEF left
    <3>2. h + left = SubtableBytes /\ h \in Nat /\ h > 0
      BY <1>4, <2>2, <3>1
    <3>3. pc \in {"idle", "entry"}
      OBVIOUS
    <3> QED
      BY <2>1, <2>3, <3>2, <3>3 DEF WalkIsInside, SubtablesInside
  <2>5. CASE h > SubtableBytes
    <3>1. left = SubtableBytes - h + 1024
      BY <1>4, <2>2, <2>5, Remainder
    <3>2. pc = "idle"
      BY <1>4, <2>2, <3>1
    <3> QED
      BY <2>1, <2>2, <2>3, <3>2, SMTT(30) DEF WalkIsInside, SubtablesInside
  <2> QED
    BY <1>4, <2>2, <2>4, <2>5
<1>6. ASSUME NEW len \in 0 .. SubtableBytes, NEW d, NextSubtable(len, d) PROVE WalkIsInside'
  <2>1. /\ walk.pc = "entry"
        /\ \/ walk' = NoWalk
           \/ /\ EntryFits(len, walk.left)
              /\ walk' = [walk EXCEPT !.left = @ - len, !.cursor = @ + len, !.len = len]
    BY <1>6 DEF NextSubtable
  <2>2. CASE walk' = NoWalk
    BY <1>3, <2>2 DEF WalkIsInside, SubtablesInside
  <2>3. CASE EntryFits(len, walk.left) /\ walk' = [walk EXCEPT !.left = @ - len, !.cursor = @ + len, !.len = len]
    <3>1. /\ walk.left \in Nat /\ walk.cursor \in Nat /\ len \in Nat /\ len <= walk.left /\ len > 0
          /\ walk.cursor + walk.left = SubtableBytes
      BY <1>2, <1>4, <2>1, <2>3 DEF EntryFits, EntryHdr
    <3>2. walk.left - len \in Nat /\ walk.cursor + len \in Nat
          /\ (walk.cursor + len) + (walk.left - len) = SubtableBytes
      BY <1>4, <3>1, SMTT(30)
    <3> QED
      BY <1>2, <2>1, <2>3, <3>1, <3>2 DEF WalkIsInside, SubtablesInside
  <2> QED
    BY <2>1, <2>2, <2>3
<1>7. ASSUME SubtablesDone PROVE WalkIsInside'
  BY <1>3, <1>7 DEF SubtablesDone, WalkIsInside, SubtablesInside
<1>8. WalkIsInside'
  BY <1>5, <1>6, <1>7 DEF SubtableNext, SubtablesDone, WalkIsInside, SubtablesInside
<1> QED
  BY <1>1, <1>8 DEF TablesIInv

LEMMA TablesInitIInv == TablesInit => TablesIInv
<1> SUFFICES ASSUME TablesInit PROVE TablesIInv
  OBVIOUS
<1>1. KeptAll(<<>>, <<>>, <<>>)
  BY DEF KeptAll
<1> QED
  BY <1>1 DEF TablesInit, TablesIInv, LoadsHold, NoWalk, WalkIsInside, SubtablesInside

LEMMA TablesStep == TablesIInv /\ [TablesNext \/ SubtableNext]_tablesVars => TablesIInv'
<1> SUFFICES ASSUME TablesIInv, [TablesNext \/ SubtableNext]_tablesVars PROVE TablesIInv'
  OBVIOUS
<1>1. CASE \E ds \in DispositionsOf : uacpi_setup_early_table_access(ds)
  BY <1>1, EarlyStep
<1>2. CASE \E ds \in DispositionsOf, d \in Dispositions : uacpi_initialize_tables(ds, d)
  BY <1>2, InitTablesStep
<1>3. CASE \E want \in BOOLEAN : uacpi_table_install(HostTable, want)
  BY <1>3, HostInstallStep
<1>4. CASE \E want \in BOOLEAN : uacpi_table_install_physical(HostTable, want)
  BY <1>4, HostInstallStep
<1>5. CASE find_table(1, "SSDT")
  BY <1>5, FindStep
<1>6. ASSUME NEW i \in DOMAIN tables, TableStep(i) PROVE TablesIInv'
  <2>1. CASE table_ctl_invalid(i)
    BY <2>1 DEF table_ctl_invalid, TablesIInv, WalkIsInside, SubtablesInside
  <2> QED
    BY <1>6, <2>1, RefStep, UnrefStep, FindNextStep, LoadStep, MarkStep DEF TableStep
<1>7. CASE uacpi_deinitialize_tables
  <2>1. KeptAll(<<>>, <<>>, <<>>)
    BY DEF KeptAll
  <2>2. /\ tables' = <<>> /\ held' = <<>> /\ loads' = <<>> /\ level' = "none" /\ loading = {}
        /\ facsPtr' = "null" /\ loading' = {} /\ walk' = walk
    BY <1>7 DEF uacpi_deinitialize_tables
  <2>3. KeptAll(tables', held', loads') /\ LoadsHold(loading', held')
    BY <2>1, <2>2 DEF LoadsHold
  <2> QED
    BY <2>2, <2>3 DEF TablesIInv, WalkIsInside, SubtablesInside
<1>8. CASE UNCHANGED tablesVars
  BY <1>8 DEF tablesVars, TablesIInv, WalkIsInside, SubtablesInside
<1> QED
  BY <1>1, <1>2, <1>3, <1>4, <1>5, <1>6, <1>7, <1>8, SubtableStep DEF TablesNext

\* Whatever the firmware and the host install, however many references are taken
\* and given back, a table that is held is mapped, none is executed twice, and the
\* walk over subtables stays inside (tables.c).
THEOREM TablesStaySound ==
    TablesInit /\ [][TablesNext \/ SubtableNext]_tablesVars => []TablesAreSound
<1>1. TablesIInv => TablesAreSound
  <2> SUFFICES ASSUME TablesIInv PROVE TablesAreSound
    OBVIOUS
  <2>1. /\ DOMAIN tables = 1 .. Len(tables) /\ DOMAIN loads = 1 .. Len(tables)
        /\ \A i \in 1 .. Len(tables) : Kept(tables[i], held[i], loads[i])
    BY DEF TablesIInv, KeptAll
  <2>2. HeldIsMapped
    BY <2>1, TablesAssumption, SMTT(30) DEF HeldIsMapped, Kept, TableRec
  <2>3. LoadedOnce
    BY <2>1 DEF LoadedOnce, Kept
  <2> QED
    BY <2>2, <2>3 DEF TablesAreSound, TablesIInv, WalkIsInside
<1> QED
  BY <1>1, TablesInitIInv, TablesStep, PTL

(***************************************************************************)
(* Blocks of general purpose events.  The lookup takes the first block     *)
(* that seems to have the event, so the order of the list matters.         *)
(***************************************************************************)
BlockRec == [device : GpeDevice, base : Nat]
ContextRec == [irq : Irq \cup {SciIrq}, blocks : Seq(BlockRec), live : BOOLEAN]

\* The blocks of \_GPE in a list are those of the FADT, the highest base first.
HasFadtBlocks(bs) ==
    /\ \A k \in DOMAIN FadtBlocks :
          \E n \in DOMAIN bs : bs[n] = Block(FadtDevice, FadtBlocks[k])
    /\ \A n \in DOMAIN bs : bs[n].device = FadtDevice =>
          \E k \in DOMAIN FadtBlocks : bs[n].base = FadtBlocks[k]
    /\ \A m, n \in DOMAIN bs :
          m < n /\ bs[m].device = FadtDevice /\ bs[n].device = FadtDevice =>
             bs[m].base > bs[n].base
HasNoFadtBlock(bs) == \A n \in DOMAIN bs : bs[n].device # FadtDevice

\* One context has the blocks of the FADT, and no other has any.
OneFadtContext(cs) ==
    \E c \in DOMAIN cs :
        /\ HasFadtBlocks(cs[c].blocks)
        /\ \A o \in DOMAIN cs : o # c => HasNoFadtBlock(cs[o].blocks)

BlocksInv ==
    /\ ctxs \in Seq(ContextRec)
    /\ sciCtx /\ FadtBlocks # <<>> => OneFadtContext(ctxs)

LEMMA FirstIs ==
    ASSUME NEW S, S \subseteq Nat, S # {}
    PROVE  First(S) \in S /\ \A m \in S : First(S) <= m
<1>1. \E n \in S : \A m \in S : n <= m
  BY SmallestNumber
<1> QED
  BY <1>1 DEF First

\* Where a list has the blocks of the FADT, the first hit is the right block.
LEMMA FirstHit ==
    ASSUME NEW bs \in Seq(BlockRec), HasFadtBlocks(bs),
           NEW k \in DOMAIN FadtBlocks, NEW i \in 0 .. NumEvents - 1
    PROVE  LET hits == Hits(bs, FadtDevice, FadtBlocks[k] + i)
           IN  /\ hits # {}
               /\ bs[First(hits)] = Block(FadtDevice, FadtBlocks[k])
               /\ gpe_from_block(bs[First(hits)], FadtBlocks[k] + i) = i
<1> DEFINE hits == Hits(bs, FadtDevice, FadtBlocks[k] + i)
           base == FadtBlocks[k]
<1>1. /\ DOMAIN bs = 1 .. Len(bs) /\ Len(bs) \in Nat
      /\ \A n \in DOMAIN bs : bs[n] \in BlockRec
      /\ DOMAIN FadtBlocks = 1 .. Len(FadtBlocks) /\ Len(FadtBlocks) \in Nat
      /\ \A n \in DOMAIN FadtBlocks : FadtBlocks[n] \in Nat
  BY LenProperties, ElementOfSeq, BlocksAssumption
<1>2. base \in Nat /\ i \in Nat /\ NumEvents \in Nat /\ i < NumEvents
  BY <1>1, BlocksAssumption
<1>3. \A n \in DOMAIN bs : bs[n].base \in Nat
  BY <1>1 DEF BlockRec
<1>4. \A n \in DOMAIN bs : n \in hits <=>
         /\ bs[n].device = FadtDevice /\ bs[n].base <= base + i
         /\ base + i <= bs[n].base + NumEvents
  <2> SUFFICES ASSUME NEW n \in DOMAIN bs
               PROVE  n \in hits <=>
                        /\ bs[n].device = FadtDevice /\ bs[n].base <= base + i
                        /\ base + i <= bs[n].base + NumEvents
    OBVIOUS
  <2>1. PICK b : b = bs[n].base
    OBVIOUS
  <2>2. b \in Nat
    BY <1>3, <2>1
  <2>3. gpe_from_block(bs[n], base + i) >= 0 <=> b <= base + i /\ base + i <= b + NumEvents
    BY <1>2, <2>1, <2>2 DEF gpe_from_block
  <2> QED
    BY <2>1, <2>3 DEF Hits
<1>5. PICK n \in DOMAIN bs : bs[n] = Block(FadtDevice, base)
  BY DEF HasFadtBlocks
<1>6. bs[n].device = FadtDevice /\ bs[n].base = base
  BY <1>5 DEF Block
<1>7. n \in hits
  BY <1>2, <1>4, <1>6
<1>8. hits \subseteq DOMAIN bs /\ hits \subseteq Nat
  BY <1>1 DEF Hits
<1> HIDE DEF hits, base
<1>9. First(hits) \in hits /\ First(hits) <= n /\ n \in Nat /\ First(hits) \in Nat
  BY <1>1, <1>7, <1>8, FirstIs
<1>10. First(hits) = n
  <2> SUFFICES ASSUME First(hits) # n PROVE FALSE
    OBVIOUS
  <2>1. PICK f \in hits : f = First(hits)
    BY <1>9
  <2>2. f < n /\ f \in DOMAIN bs
    BY <1>8, <1>9, <2>1
  <2>3. bs[f].device = FadtDevice /\ bs[f].base <= base + i
    BY <1>4, <2>2
  <2>4. bs[f].base > base
    BY <1>6, <2>2, <2>3 DEF HasFadtBlocks
  <2>5. PICK j \in DOMAIN FadtBlocks : bs[f].base = FadtBlocks[j]
    BY <2>2, <2>3 DEF HasFadtBlocks
  <2>6. FadtBlocks[j] \in Nat /\ j \in Nat /\ k \in Nat /\ FadtBlocks[j] > FadtBlocks[k]
    BY <1>1, <2>4, <2>5 DEF base
  <2>7. ~(j < k) /\ j # k
    <3>1. j < k => FadtBlocks[j] + NumEvents <= FadtBlocks[k]
      BY BlocksAssumption
    <3>2. FadtBlocks[k] \in Nat
      BY <1>1
    <3> QED
      BY <2>6, <3>1, <3>2, <1>2
  <2>8. FadtBlocks[k] + NumEvents <= FadtBlocks[j]
    BY <2>6, <2>7, BlocksAssumption
  <2> QED
    BY <1>2, <2>3, <2>5, <2>6, <2>8 DEF base
<1>11. gpe_from_block(bs[n], base + i) = i
  BY <1>2, <1>6 DEF gpe_from_block
<1> QED
  BY <1>5, <1>7, <1>10, <1>11 DEF hits, base

LEMMA NoHit ==
    ASSUME NEW bs, HasNoFadtBlock(bs), NEW idx
    PROVE  Hits(bs, FadtDevice, idx) = {}
BY DEF HasNoFadtBlock, Hits

\* The lookup stops in the one context that has the blocks of the FADT.
LEMMA InvFinds ==
    BlocksInv => FindsItsEvent
<1> SUFFICES ASSUME BlocksInv, sciCtx, NEW k \in DOMAIN FadtBlocks, NEW i \in 0 .. NumEvents - 1
             PROVE  get_gpe(FadtDevice, FadtBlocks[k] + i)
                        = <<Block(FadtDevice, FadtBlocks[k]), i>>
  BY DEF FindsItsEvent
<1>1. FadtBlocks # <<>>
  OBVIOUS
<1>2. PICK c \in DOMAIN ctxs :
         /\ HasFadtBlocks(ctxs[c].blocks)
         /\ \A o \in DOMAIN ctxs : o # c => HasNoFadtBlock(ctxs[o].blocks)
  BY <1>1 DEF BlocksInv, OneFadtContext
<1>3. ctxs \in Seq(ContextRec)
  BY DEF BlocksInv
<1>4. ctxs[c].blocks \in Seq(BlockRec) /\ c \in Nat
  <2>1. ctxs[c] \in ContextRec /\ c \in Nat
    BY <1>3, ElementOfSeq, LenProperties
  <2> QED
    BY <2>1 DEF ContextRec
<1> DEFINE idx == FadtBlocks[k] + i
           having == {o \in DOMAIN ctxs : Hits(ctxs[o].blocks, FadtDevice, idx) # {}}
           bs == ctxs[c].blocks
<1>5. /\ Hits(bs, FadtDevice, idx) # {}
      /\ bs[First(Hits(bs, FadtDevice, idx))] = Block(FadtDevice, FadtBlocks[k])
      /\ gpe_from_block(bs[First(Hits(bs, FadtDevice, idx))], idx) = i
  BY <1>2, <1>4, FirstHit
<1>6. \A o \in DOMAIN ctxs : o # c => Hits(ctxs[o].blocks, FadtDevice, idx) = {}
  BY <1>2, NoHit
<1>7. having = {c}
  BY <1>5, <1>6
<1>8. First(having) = c
  BY <1>4, <1>7, FirstIs
<1> HIDE DEF idx
<1> QED
  BY <1>5, <1>7, <1>8 DEF get_gpe, idx

\* A driver's block in front of a list leaves the blocks of the FADT as they are.
LEMMA LinkedInFront ==
    ASSUME NEW bs \in Seq(BlockRec), NEW b \in BlockRec, b.device # FadtDevice
    PROVE  LET new == <<b>> \o bs
           IN  /\ new \in Seq(BlockRec)
               /\ HasFadtBlocks(bs) => HasFadtBlocks(new)
               /\ HasNoFadtBlock(bs) => HasNoFadtBlock(new)
<1>1. PICK new : new = <<b>> \o bs
  OBVIOUS
<1>2. /\ new \in Seq(BlockRec) /\ Len(new) = Len(bs) + 1 /\ new[1] = b
      /\ \A j \in 2 .. Len(bs) + 1 : new[j] = bs[j - 1]
  BY <1>1, ConsProperties
<1>3. DOMAIN bs = 1 .. Len(bs) /\ DOMAIN new = 1 .. Len(new) /\ Len(bs) \in Nat
  BY <1>2, LenProperties
<1>4. \A j \in DOMAIN new : j # 1 => j - 1 \in DOMAIN bs /\ new[j] = bs[j - 1] /\ j \in Nat
  BY <1>2, <1>3
<1>5. \A j \in DOMAIN bs : j + 1 \in DOMAIN new /\ new[j + 1] = bs[j]
  BY <1>2, <1>3
<1>6. \A j \in DOMAIN new : new[j].device = FadtDevice => j # 1
  BY <1>2
<1>7. ASSUME HasFadtBlocks(bs) PROVE HasFadtBlocks(new)
  <2>1. ASSUME NEW k \in DOMAIN FadtBlocks
        PROVE  \E n \in DOMAIN new : new[n] = Block(FadtDevice, FadtBlocks[k])
    BY <1>5, <1>7 DEF HasFadtBlocks
  <2>2. ASSUME NEW n \in DOMAIN new, new[n].device = FadtDevice
        PROVE  \E k \in DOMAIN FadtBlocks : new[n].base = FadtBlocks[k]
    BY <1>4, <1>6, <1>7, <2>2 DEF HasFadtBlocks
  <2>3. ASSUME NEW m \in DOMAIN new, NEW n \in DOMAIN new, m < n,
               new[m].device = FadtDevice, new[n].device = FadtDevice
        PROVE  new[m].base > new[n].base
    <3>1. m # 1 /\ n # 1
      BY <1>6, <2>3
    <3>2. /\ m - 1 \in DOMAIN bs /\ n - 1 \in DOMAIN bs /\ m - 1 < n - 1
          /\ new[m] = bs[m - 1] /\ new[n] = bs[n - 1]
      BY <1>4, <2>3, <3>1
    <3> QED
      BY <1>7, <2>3, <3>2 DEF HasFadtBlocks
  <2> QED
    BY <2>1, <2>2, <2>3 DEF HasFadtBlocks
<1>8. ASSUME HasNoFadtBlock(bs) PROVE HasNoFadtBlock(new)
  BY <1>2, <1>4, <1>8 DEF HasNoFadtBlock
<1> QED
  BY <1>1, <1>2, <1>7, <1>8

\* So does the removal of a driver's block.
LEMMA Unlinked ==
    ASSUME NEW bs \in Seq(BlockRec), NEW at \in DOMAIN bs, bs[at].device # FadtDevice
    PROVE  LET rest == RemoveAt(bs, at)
           IN  /\ rest \in Seq(BlockRec)
               /\ HasFadtBlocks(bs) => HasFadtBlocks(rest)
               /\ HasNoFadtBlock(bs) => HasNoFadtBlock(rest)
<1>1. PICK rest : rest = RemoveAt(bs, at)
  OBVIOUS
<1>2. DOMAIN bs = 1 .. Len(bs) /\ Len(bs) \in Nat /\ at \in 1 .. Len(bs)
  BY LenProperties, SMTT(30)
<1>3. /\ rest \in Seq(BlockRec) /\ Len(rest) = Len(bs) - 1
      /\ \A j \in 1 .. Len(bs) - 1 : rest[j] = IF j < at THEN bs[j] ELSE bs[j + 1]
  BY <1>1, <1>2, RemoveAtProperties
<1>4. DOMAIN rest = 1 .. Len(bs) - 1
  BY <1>3, LenProperties
<1> DEFINE Was(j) == IF j < at THEN j ELSE j + 1
<1>5. \A j \in DOMAIN rest : Was(j) \in DOMAIN bs /\ rest[j] = bs[Was(j)]
  BY <1>2, <1>3, <1>4
<1>6. \A m, n \in DOMAIN rest : m < n => Was(m) < Was(n)
  BY <1>2, <1>4
<1>7. ASSUME NEW j \in DOMAIN bs, j # at
      PROVE  \E n \in DOMAIN rest : rest[n] = bs[j]
  <2>1. CASE j < at
    <3>1. j \in DOMAIN rest /\ rest[j] = bs[j]
      BY <1>2, <1>3, <1>4, <2>1
    <3> QED
      BY <3>1
  <2>2. CASE j > at
    <3>1. j - 1 \in DOMAIN rest /\ rest[j - 1] = bs[j]
      BY <1>2, <1>3, <1>4, <2>2
    <3> QED
      BY <3>1
  <2> QED
    BY <1>2, <1>7, <2>1, <2>2
<1> HIDE DEF Was
<1>8. ASSUME HasFadtBlocks(bs) PROVE HasFadtBlocks(rest)
  <2>1. ASSUME NEW k \in DOMAIN FadtBlocks
        PROVE  \E n \in DOMAIN rest : rest[n] = Block(FadtDevice, FadtBlocks[k])
    <3>1. PICK n \in DOMAIN bs : bs[n] = Block(FadtDevice, FadtBlocks[k])
      BY <1>8 DEF HasFadtBlocks
    <3>2. n # at
      BY <3>1 DEF Block
    <3> QED
      BY <1>7, <3>1, <3>2
  <2>2. ASSUME NEW n \in DOMAIN rest, rest[n].device = FadtDevice
        PROVE  \E k \in DOMAIN FadtBlocks : rest[n].base = FadtBlocks[k]
    BY <1>5, <1>8, <2>2 DEF HasFadtBlocks
  <2>3. ASSUME NEW m \in DOMAIN rest, NEW n \in DOMAIN rest, m < n,
               rest[m].device = FadtDevice, rest[n].device = FadtDevice
        PROVE  rest[m].base > rest[n].base
    BY <1>5, <1>6, <1>8, <2>3 DEF HasFadtBlocks
  <2> QED
    BY <2>1, <2>2, <2>3 DEF HasFadtBlocks
<1>9. ASSUME HasNoFadtBlock(bs) PROVE HasNoFadtBlock(rest)
  BY <1>5, <1>9 DEF HasNoFadtBlock
<1> QED
  BY <1>1, <1>3, <1>8, <1>9

\* A context whose list of blocks changes by a driver's block.
LEMMA ContextChanged ==
    ASSUME NEW cs \in Seq(ContextRec), NEW new \in Seq(ContextRec), NEW c \in DOMAIN cs,
           Len(new) = Len(cs), \A o \in DOMAIN cs : o # c => new[o] = cs[o],
           HasFadtBlocks(cs[c].blocks) => HasFadtBlocks(new[c].blocks),
           HasNoFadtBlock(cs[c].blocks) => HasNoFadtBlock(new[c].blocks),
           OneFadtContext(cs)
    PROVE  OneFadtContext(new)
<1>1. DOMAIN new = DOMAIN cs
  BY LenProperties
<1>2. PICK f \in DOMAIN cs :
         /\ HasFadtBlocks(cs[f].blocks)
         /\ \A o \in DOMAIN cs : o # f => HasNoFadtBlock(cs[o].blocks)
  BY DEF OneFadtContext
<1>3. HasFadtBlocks(new[f].blocks)
  BY <1>2
<1>4. \A o \in DOMAIN cs : o # f => HasNoFadtBlock(new[o].blocks)
  BY <1>2
<1> QED
  BY <1>1, <1>3, <1>4 DEF OneFadtContext

\* A new context at the head, with a driver's block.
LEMMA ContextCreated ==
    ASSUME NEW cs \in Seq(ContextRec), NEW x \in ContextRec, HasNoFadtBlock(x.blocks)
    PROVE  /\ <<x>> \o cs \in Seq(ContextRec)
           /\ OneFadtContext(cs) => OneFadtContext(<<x>> \o cs)
<1>1. PICK new : new = <<x>> \o cs
  OBVIOUS
<1>2. /\ new \in Seq(ContextRec) /\ Len(new) = Len(cs) + 1 /\ new[1] = x
      /\ \A j \in 2 .. Len(cs) + 1 : new[j] = cs[j - 1]
  BY <1>1, ConsProperties
<1>3. DOMAIN cs = 1 .. Len(cs) /\ DOMAIN new = 1 .. Len(new) /\ Len(cs) \in Nat
  BY <1>2, LenProperties
<1>4. \A j \in DOMAIN new : j # 1 => j - 1 \in DOMAIN cs /\ new[j] = cs[j - 1] /\ j \in Nat
  BY <1>2, <1>3
<1>5. ASSUME OneFadtContext(cs) PROVE OneFadtContext(new)
  <2>1. PICK f \in DOMAIN cs :
           /\ HasFadtBlocks(cs[f].blocks)
           /\ \A o \in DOMAIN cs : o # f => HasNoFadtBlock(cs[o].blocks)
    BY <1>5 DEF OneFadtContext
  <2>2. f + 1 \in DOMAIN new /\ new[f + 1] = cs[f] /\ f \in Nat
    BY <1>2, <1>3
  <2>3. ASSUME NEW o \in DOMAIN new, o # f + 1
        PROVE  HasNoFadtBlock(new[o].blocks)
    <3>1. CASE o = 1
      BY <1>2, <3>1
    <3>2. CASE o # 1
      BY <1>4, <2>1, <2>2, <2>3, <3>2
    <3> QED
      BY <3>1, <3>2
  <2> QED
    BY <2>1, <2>2, <2>3 DEF OneFadtContext
<1> QED
  BY <1>1, <1>2, <1>5

LEMMA BlocksInitInv == BlocksInit => BlocksInv
<1> SUFFICES ASSUME BlocksInit PROVE BlocksInv
  OBVIOUS
<1> QED
  BY DEF BlocksInit, BlocksInv

\* initialize_gpes links the blocks of the FADT one in front of the other.
LEMMA InitializeKeeps ==
    ASSUME BlocksInv, uacpi_initialize_events PROVE BlocksInv'
<1> DEFINE L == Len(FadtBlocks)
           blocks == [n \in 1 .. L |-> Block(FadtDevice, FadtBlocks[L + 1 - n])]
           x == [irq |-> SciIrq, blocks |-> blocks, live |-> TRUE]
<1>1. /\ L \in Nat /\ DOMAIN FadtBlocks = 1 .. L
      /\ \A n \in 1 .. L : FadtBlocks[n] \in Nat
  BY BlocksAssumption, LenProperties, ElementOfSeq
<1>2. \A n \in 1 .. L : L + 1 - n \in 1 .. L
  BY <1>1
<1>3. blocks \in [1 .. L -> BlockRec]
  BY <1>1, <1>2, BlocksAssumption DEF Block, BlockRec
<1>4. blocks \in Seq(BlockRec) /\ DOMAIN blocks = 1 .. L
  BY <1>1, <1>3, SeqDef
<1>5. HasFadtBlocks(blocks)
  <2>1. ASSUME NEW k \in DOMAIN FadtBlocks
        PROVE  \E n \in DOMAIN blocks : blocks[n] = Block(FadtDevice, FadtBlocks[k])
    <3>1. L + 1 - k \in 1 .. L /\ L + 1 - (L + 1 - k) = k
      BY <1>1
    <3> QED
      BY <3>1
  <2>2. ASSUME NEW n \in DOMAIN blocks, blocks[n].device = FadtDevice
        PROVE  \E k \in DOMAIN FadtBlocks : blocks[n].base = FadtBlocks[k]
    BY <1>1, <1>2, <1>4 DEF Block
  <2>3. ASSUME NEW m \in DOMAIN blocks, NEW n \in DOMAIN blocks, m < n
        PROVE  blocks[m].base > blocks[n].base
    <3>1. PICK p \in 1 .. L, q \in 1 .. L : p = L + 1 - m /\ q = L + 1 - n
      BY <1>2, <1>4
    <3>2. q < p
      BY <1>1, <1>4, <2>3, <3>1
    <3>3. FadtBlocks[q] + NumEvents <= FadtBlocks[p]
      BY <1>1, <3>1, <3>2, BlocksAssumption
    <3>4. FadtBlocks[q] < FadtBlocks[p]
      BY <1>1, <3>1, <3>3, BlocksAssumption, SMTT(30)
    <3>5. blocks[m].base = FadtBlocks[p] /\ blocks[n].base = FadtBlocks[q]
      BY <1>4, <3>1 DEF Block
    <3> QED
      BY <1>1, <3>4, <3>5
  <2> HIDE DEF blocks
  <2> QED
    BY <2>1, <2>2, <2>3 DEF HasFadtBlocks
<1>6. ctxs' = IF blocks = <<>> THEN <<>> ELSE <<x>>
  BY DEF uacpi_initialize_events
<1>7. FadtBlocks # <<>> => blocks # <<>>
  <2> SUFFICES ASSUME FadtBlocks # <<>> PROVE 1 \in DOMAIN blocks
    OBVIOUS
  <2> QED
    BY <1>1, <1>4, BlocksAssumption, EmptySeq
<1> HIDE DEF blocks
<1>8. x \in ContextRec /\ x.blocks = blocks
  BY <1>4 DEF ContextRec
<1> HIDE DEF x
<1>9. ctxs' \in Seq(ContextRec)
  BY <1>6, <1>8
<1>10. OneFadtContext(<<x>>)
  BY <1>5, <1>8 DEF OneFadtContext
<1> QED
  BY <1>6, <1>7, <1>9, <1>10 DEF BlocksInv

LEMMA InstallKeepsBlocks ==
    ASSUME BlocksInv, NEW d \in GpeDevice, d # FadtDevice, NEW irq \in Irq,
           uacpi_install_gpe_block(d, irq)
    PROVE  BlocksInv'
<1> DEFINE b == Block(d, 0)
           found == find_gpe_interrupt_ctx(irq)
<1>1. b \in BlockRec /\ b.device # FadtDevice
  BY DEF Block, BlockRec
<1>2. ctxs \in Seq(ContextRec) /\ sciCtx' = sciCtx
  BY DEF BlocksInv, uacpi_install_gpe_block
<1>3. /\ DOMAIN ctxs = 1 .. Len(ctxs) /\ Len(ctxs) \in Nat
      /\ \A c \in DOMAIN ctxs : ctxs[c] \in ContextRec
  BY <1>2, LenProperties, ElementOfSeq
<1>4. CASE found # {}
  <2>1. PICK i : i = First(found)
    OBVIOUS
  <2>2. found \subseteq DOMAIN ctxs /\ found \subseteq Nat
    BY <1>3 DEF find_gpe_interrupt_ctx
  <2>3. i \in DOMAIN ctxs
    BY <1>4, <2>1, <2>2, FirstIs
  <2>4. ctxs' = [ctxs EXCEPT ![i].blocks = <<b>> \o ctxs[i].blocks]
    BY <1>4, <2>1 DEF uacpi_install_gpe_block, create_gpe_block, First
  <2>5. PICK bs, new : bs = ctxs[i].blocks /\ new = <<b>> \o bs
    OBVIOUS
  <2>6. bs \in Seq(BlockRec)
    BY <1>3, <2>3, <2>5 DEF ContextRec
  <2>7. /\ new \in Seq(BlockRec)
        /\ HasFadtBlocks(bs) => HasFadtBlocks(new)
        /\ HasNoFadtBlock(bs) => HasNoFadtBlock(new)
    BY <1>1, <2>5, <2>6, LinkedInFront
  <2>8. PICK row : row = [ctxs[i] EXCEPT !.blocks = new]
    OBVIOUS
  <2>9. row \in ContextRec /\ row.blocks = new
    BY <1>3, <2>3, <2>7, <2>8 DEF ContextRec
  <2>10. ctxs' = [ctxs EXCEPT ![i] = row]
    BY <2>4, <2>5, <2>8
  <2>11. ctxs' \in Seq(ContextRec) /\ Len(ctxs') = Len(ctxs)
    BY <1>2, <2>3, <2>9, <2>10, ExceptSeq
  <2>12. ctxs'[i] = row /\ \A o \in DOMAIN ctxs : o # i => ctxs'[o] = ctxs[o]
    BY <1>2, <2>3, <2>10
  <2>13. ctxs'[i].blocks = new /\ ctxs[i].blocks = bs
    BY <2>5, <2>9, <2>12
  <2>14. OneFadtContext(ctxs) => OneFadtContext(ctxs')
    BY <1>2, <2>3, <2>7, <2>11, <2>12, <2>13, ContextChanged
  <2> QED
    BY <1>2, <2>11, <2>14 DEF BlocksInv
<1>5. CASE found = {}
  <2>1. PICK x : x = [irq |-> irq, blocks |-> <<b>>, live |-> TRUE]
    OBVIOUS
  <2>2. ctxs' = <<x>> \o ctxs
    BY <1>5, <2>1 DEF uacpi_install_gpe_block, create_gpe_block
  <2>3. <<b>> \in Seq(BlockRec) /\ HasNoFadtBlock(<<b>>)
    BY <1>1 DEF HasNoFadtBlock
  <2>4. x \in ContextRec /\ HasNoFadtBlock(x.blocks)
    BY <2>1, <2>3 DEF ContextRec
  <2> QED
    BY <1>2, <2>2, <2>4, ContextCreated DEF BlocksInv
<1> QED
  BY <1>4, <1>5

LEMMA UninstallKeepsBlocks ==
    ASSUME BlocksInv, NEW d \in GpeDevice, d # FadtDevice, uacpi_uninstall_gpe_block(d)
    PROVE  BlocksInv'
<1>1. ctxs \in Seq(ContextRec) /\ sciCtx' = sciCtx
  BY DEF BlocksInv, uacpi_uninstall_gpe_block
<1>2. \A c \in DOMAIN ctxs : ctxs[c] \in ContextRec
  BY <1>1, ElementOfSeq, LenProperties
<1>3. PICK i \in DOMAIN ctxs :
         /\ Hits(ctxs[i].blocks, d, 0) # {}
         /\ LET rest == RemoveAt(ctxs[i].blocks, First(Hits(ctxs[i].blocks, d, 0)))
            IN  ctxs' = [ctxs EXCEPT ![i].blocks = rest,
                                     ![i].live = ctxs[i].live /\ rest # <<>>]
  BY DEF uacpi_uninstall_gpe_block
<1>4. PICK bs, at : bs = ctxs[i].blocks /\ at = First(Hits(bs, d, 0))
  OBVIOUS
<1>5. bs \in Seq(BlockRec)
  BY <1>2, <1>4 DEF ContextRec
<1>6. Hits(bs, d, 0) \subseteq DOMAIN bs /\ Hits(bs, d, 0) \subseteq Nat
  BY <1>5, LenProperties DEF Hits
<1>7. at \in Hits(bs, d, 0)
  BY <1>3, <1>4, <1>6, FirstIs
<1>8. at \in DOMAIN bs /\ bs[at].device # FadtDevice
  BY <1>7 DEF Hits
<1>9. PICK rest : rest = RemoveAt(bs, at)
  OBVIOUS
<1>10. /\ rest \in Seq(BlockRec)
       /\ HasFadtBlocks(bs) => HasFadtBlocks(rest)
       /\ HasNoFadtBlock(bs) => HasNoFadtBlock(rest)
  BY <1>5, <1>8, <1>9, Unlinked
<1>11. PICK alive \in BOOLEAN : alive = (ctxs[i].live /\ rest # <<>>)
  OBVIOUS
<1>12. ctxs' = [ctxs EXCEPT ![i].blocks = rest, ![i].live = alive]
  BY <1>3, <1>4, <1>9, <1>11
<1>13. PICK row : row = [ctxs[i] EXCEPT !.blocks = rest, !.live = alive]
  OBVIOUS
<1>14. row \in ContextRec /\ row.blocks = rest
  BY <1>2, <1>10, <1>13 DEF ContextRec
<1>15. ctxs' = [ctxs EXCEPT ![i] = row]
  BY <1>1, <1>12, <1>13
<1>16. ctxs' \in Seq(ContextRec) /\ Len(ctxs') = Len(ctxs)
  BY <1>1, <1>14, <1>15, ExceptSeq
<1>17. ctxs'[i] = row /\ \A o \in DOMAIN ctxs : o # i => ctxs'[o] = ctxs[o]
  BY <1>1, <1>15
<1>18. ctxs'[i].blocks = rest /\ ctxs[i].blocks = bs
  BY <1>4, <1>14, <1>17
<1>19. OneFadtContext(ctxs) => OneFadtContext(ctxs')
  BY <1>1, <1>10, <1>16, <1>17, <1>18, ContextChanged
<1> QED
  BY <1>1, <1>16, <1>19 DEF BlocksInv

\* Whatever blocks drivers add and remove, an event of a block of the FADT is found
\* in its block, although gpe_from_block takes one index too many: the list has the
\* block with the higher base first.
THEOREM EventsAreFound == BlocksInit /\ [][BlocksNext]_blocksVars => []FindsItsEvent
<1>1. BlocksInit => BlocksInv
  BY BlocksInitInv
<1>2. BlocksInv /\ [BlocksNext]_blocksVars => BlocksInv'
  <2> SUFFICES ASSUME BlocksInv, [BlocksNext]_blocksVars PROVE BlocksInv'
    OBVIOUS
  <2>1. CASE uacpi_initialize_events
    BY <2>1, InitializeKeeps
  <2>2. ASSUME NEW d \in GpeDevice \ {FadtDevice}, NEW irq \in Irq,
               uacpi_install_gpe_block(d, irq)
        PROVE  BlocksInv'
    BY <2>2, InstallKeepsBlocks
  <2>3. ASSUME NEW d \in GpeDevice \ {FadtDevice}, uacpi_uninstall_gpe_block(d)
        PROVE  BlocksInv'
    BY <2>3, UninstallKeepsBlocks
  <2>4. CASE UNCHANGED blocksVars
    BY <2>4 DEF blocksVars, BlocksInv
  <2> QED
    BY <2>1, <2>2, <2>3, <2>4 DEF BlocksNext
<1>3. BlocksInv => FindsItsEvent
  BY InvFinds
<1> QED
  BY <1>1, <1>2, <1>3, PTL
=============================================================================
