---------------------------- MODULE UacpiOpregion ----------------------------
(***************************************************************************)
(* Operation regions and their address space handlers                      *)
(* (extra/uacpi/opregion.c).  Every step runs under g_opregion_lock; the   *)
(* namespace lock, let go of for a callback, does not let another of these *)
(* steps in.  Devices form a chain below the root, OpDevice[1].            *)
(***************************************************************************)
EXTENDS Integers, Sequences, FiniteSets, SequencesExt

CONSTANTS OpDevice,   \* sequence of devices, each the parent of the next
          OpSpace,    \* address spaces
          OpNeedsReg, \* those of them for which space_needs_reg
          OpRegion,   \* function: region -> [dev, space, temporary, length]
          OpWidth     \* bound: offsets and access widths of an I/O

OpNone == "none"
OpRemoved == "removed"   \* a handler of no device, which a region still refers to

ASSUME OpAssumption ==
    /\ OpDevice \in Seq(Range(OpDevice)) /\ {OpNone, OpRemoved} \cap Range(OpDevice) = {}
    /\ \A i, j \in DOMAIN OpDevice : OpDevice[i] = OpDevice[j] => i = j
    /\ \A r \in DOMAIN OpRegion : OpRegion[r].dev \in Range(OpDevice)

Regions == DOMAIN OpRegion
Level(d) == CHOOSE i \in DOMAIN OpDevice : OpDevice[i] = d
Under(d) == {r \in Regions : Level(OpRegion[r].dev) >= Level(d)}

VARIABLES handlersOf,  \* device -> the spaces it has a handler for, newest first
          region,      \* region -> [there, handler, attached, reg]
          loaded,      \* init_level >= UACPI_INIT_LEVEL_NAMESPACE_LOADED
          told,        \* history: the handler that accepted each region, if any
          io           \* the last I/O a handler was called for

opVars == <<handlersOf, region, loaded, told, io>>

\* A handler is named by its device: a device has one per space.
find_handler(d, space) == Contains(handlersOf[d], space)

Gone == [there |-> FALSE, handler |-> OpNone, attached |-> FALSE, reg |-> FALSE]
NoIo == [region |-> OpNone, end |-> 0]

(***************************************************************************)
(* One region.  R and T are the functions region and told.                 *)
(***************************************************************************)

\* region_run_reg: _REG is looked up beside the region; regions of devices without
\* one answer NOT_FOUND and keep their flag.
HasReg(r) == OpRegion[r].dev # OpDevice[1]

region_install_handler(R, r, d) == [R EXCEPT ![r].handler = d]

\* A slip: the handler is replaced, and the region still counts as attached.
UninstallKeepsAttached(R, r) == [R EXCEPT ![r].handler = OpNone]

\* region_uninstall_handler: an attached region is detached from its handler.
region_uninstall_handler(R, r) == [R EXCEPT ![r].handler = OpNone, ![r].attached = FALSE]

Detached(R, T) == [r \in Regions |-> IF R[r].attached THEN T[r] ELSE OpNone]

(***************************************************************************)
(* Handlers of a device.                                                   *)
(***************************************************************************)

\* The walk stops below a device that has a handler for the space itself.
Visited(d, space) ==
    {r \in Under(d) : /\ region[r].there /\ OpRegion[r].space = space
                      /\ \A i \in Level(d) + 1 .. Level(OpRegion[r].dev) :
                            ~find_handler(OpDevice[i], space)}

\* reg_or_unreg_all_opregions with do_run_reg: every region below, and the
\* temporary ones only to disconnect.
reg_or_unreg_all_opregions(R, d, space, connect) ==
    [r \in Regions |->
        IF /\ r \in Under(d) /\ R[r].there /\ OpRegion[r].space = space
           /\ (connect => ~OpRegion[r].temporary) /\ R[r].reg # connect
        THEN [R[r] EXCEPT !.reg = connect /\ HasReg(r)]
        ELSE R[r]]

uacpi_install_address_space_handler(d, space) ==
    LET hit == {r \in Visited(d, space) : ~OpRegion[r].temporary}
        un == [r \in Regions |-> IF r \in hit /\ region[r].handler # OpNone
                                 THEN region_uninstall_handler(region, r)[r] ELSE region[r]]
        in == [r \in Regions |-> IF r \in hit THEN region_install_handler(un, r, d)[r]
                                 ELSE un[r]]
    IN  /\ ~find_handler(d, space)
        /\ handlersOf' = [handlersOf EXCEPT ![d] = <<space>> \o @]
        /\ region' = IF space \in OpNeedsReg /\ loaded
                     THEN reg_or_unreg_all_opregions(in, d, space, TRUE) ELSE in
        /\ told' = Detached(in, told)
        /\ UNCHANGED <<loaded, io>>

\* The regions are disconnected when the handler is the newest of its device; for
\* any other the code leaves before it gets there.  The walk does not reach a
\* temporary region that was connected before a device in between got its own
\* handler: it keeps its reference to the handler that no device has any more.
uacpi_uninstall_address_space_handler(d, space) ==
    LET mine == {r \in Regions : region[r].handler = d /\ OpRegion[r].space = space}
        missed == mine \ Visited(d, space)
        at == CHOOSE i \in DOMAIN handlersOf[d] : handlersOf[d][i] = space
        un == [r \in Regions |->
                 IF r \in missed THEN [region[r] EXCEPT !.handler = OpRemoved]
                 ELSE IF r \in mine THEN region_uninstall_handler(region, r)[r] ELSE region[r]]
    IN  /\ find_handler(d, space)
        /\ handlersOf' = [handlersOf EXCEPT ![d] = RemoveAt(@, at)]
        /\ region' = IF Head(handlersOf[d]) = space /\ space \in OpNeedsReg
                     THEN reg_or_unreg_all_opregions(un, d, space, FALSE) ELSE un
        /\ told' = [r \in Regions |->
                      IF r \in missed /\ told[r] = d THEN OpRemoved ELSE Detached(un, told)[r]]
        /\ UNCHANGED <<loaded, io>>

uacpi_reg_all_opregions(d, space) ==
    /\ loaded /\ space \in OpNeedsReg /\ find_handler(d, space)
    /\ region' = reg_or_unreg_all_opregions(region, d, space, TRUE)
    /\ UNCHANGED <<handlersOf, loaded, told, io>>

\* uacpi_initialize_opregion_node: the handler of the nearest device above.
uacpi_initialize_opregion_node(r) ==
    LET above == {i \in 1 .. Level(OpRegion[r].dev) : find_handler(OpDevice[i], OpRegion[r].space)}
        d == OpDevice[CHOOSE i \in above : \A j \in above : j <= i]
        new == [Gone EXCEPT !.there = TRUE]
    IN  /\ ~region[r].there
        /\ region' = [region EXCEPT ![r] =
              IF above = {} THEN new
              ELSE [new EXCEPT !.handler = d,
                               !.reg = OpRegion[r].space \in OpNeedsReg /\ loaded /\ HasReg(r)]]
        /\ UNCHANGED <<handlersOf, loaded, told, io>>

\* uacpi_opregion_uninstall_handler: the node of a temporary region goes away.
uacpi_opregion_uninstall_handler(r) ==
    /\ region[r].there /\ OpRegion[r].temporary
    /\ region' = [region EXCEPT ![r] = Gone]
    /\ told' = [told EXCEPT ![r] = OpNone]
    /\ UNCHANGED <<handlersOf, loaded, io>>

(***************************************************************************)
(* I/O.                                                                    *)
(***************************************************************************)

InBounds(r, offset, width) == offset + width <= OpRegion[r].length

\* The handler accepts the region at its first access, or refuses it.
uacpi_opregion_attach(r, accepts) ==
    \/ region[r].attached /\ UNCHANGED <<region, told>>
    \/ /\ ~region[r].attached /\ accepts
       /\ region' = [region EXCEPT ![r].attached = TRUE]
       /\ told' = [told EXCEPT ![r] = region[r].handler]

\* The handler of an attached region is called, in bounds.
uacpi_dispatch_opregion_io(r, offset, width, accepts) ==
    /\ region[r].there /\ region[r].handler # OpNone
    /\ uacpi_opregion_attach(r, accepts)
    /\ io' = IF InBounds(r, offset, width) THEN [region |-> r, end |-> offset + width] ELSE NoIo
    /\ UNCHANGED <<handlersOf, loaded>>

\* uacpi_namespace_load only raises the level.  (uacpi_namespace_initialize then calls
\* uacpi_reg_all_opregions for the default handlers of the root.)
NamespaceLoads ==
    /\ ~loaded /\ loaded' = TRUE
    /\ UNCHANGED <<handlersOf, region, told, io>>

OpInit ==
    /\ handlersOf = [d \in Range(OpDevice) |-> <<>>]
    /\ region = [r \in Regions |-> Gone] /\ told = [r \in Regions |-> OpNone]
    /\ loaded = FALSE /\ io = NoIo

OpNext ==
    \/ \E d \in Range(OpDevice), s \in OpSpace : uacpi_install_address_space_handler(d, s)
    \/ \E d \in Range(OpDevice), s \in OpSpace : uacpi_uninstall_address_space_handler(d, s)
    \/ \E d \in Range(OpDevice), s \in OpSpace : uacpi_reg_all_opregions(d, s)
    \/ \E r \in Regions : uacpi_initialize_opregion_node(r)
    \/ \E r \in Regions : uacpi_opregion_uninstall_handler(r)
    \/ \E r \in Regions, o \in OpWidth, w \in OpWidth \ {0}, a \in BOOLEAN :
          uacpi_dispatch_opregion_io(r, o, w, a)
    \/ NamespaceLoads

(***************************************************************************)
(* Properties.                                                             *)
(***************************************************************************)
OpTypeOK ==
    /\ handlersOf \in [Range(OpDevice) -> Seq(OpSpace)] /\ loaded \in BOOLEAN
    /\ \A r \in Regions : region[r].handler \in Range(OpDevice) \cup {OpNone, OpRemoved}

\* A region is served by a handler that is installed on a device above it and that,
\* once attached, accepted this region; I/O stays in the region.  Only a temporary
\* region may be left with a handler that has been removed.
RegionsAreServed ==
    /\ \A r \in Regions : region[r].handler # OpNone =>
          /\ IF region[r].handler = OpRemoved THEN OpRegion[r].temporary
             ELSE /\ find_handler(region[r].handler, OpRegion[r].space)
                  /\ Level(region[r].handler) <= Level(OpRegion[r].dev)
          /\ region[r].attached => told[r] = region[r].handler
    /\ io.region # OpNone => io.end <= OpRegion[io.region].length
=============================================================================
