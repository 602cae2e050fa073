------------------------------ MODULE UacpiOsi ------------------------------
(***************************************************************************)
(* The _OSI interfaces (extra/uacpi/osi.c): the list that starts with the   *)
(* predefined table and grows at its head.  Every operation runs under      *)
(* interface_mutex.                                                         *)
(***************************************************************************)
EXTENDS Integers, Sequences, SequencesExt

CONSTANTS OsiPredefined, \* sequence of [name, kind, host, weight]: predefined_interfaces
          OsiExtra       \* names a host may add

Kinds == {"vendor", "feature", "none"}
OsiNames == {OsiPredefined[i].name : i \in DOMAIN OsiPredefined} \cup OsiExtra

\* The table is an array and has every name once.
ASSUME OsiAssumption ==
    /\ DOMAIN OsiPredefined = 1 .. Len(OsiPredefined) /\ Len(OsiPredefined) \in Nat
    /\ \A i \in DOMAIN OsiPredefined : OsiPredefined[i].kind \in Kinds
    /\ \A i, j \in DOMAIN OsiPredefined : OsiPredefined[i].name = OsiPredefined[j].name => i = j

VARIABLES interfaces, \* registered_interfaces, as a sequence
          asker,      \* interface_handler: "none", or what it answers
          latest,     \* latest_queried_interface
          offered     \* history: the names the host last asked to be offered

osiVars == <<interfaces, asker, latest, offered>>

\* The table as the linker, or uacpi_deinitialize_interfaces, leaves it.
Predefined0 ==
    [i \in DOMAIN OsiPredefined |->
        [name |-> OsiPredefined[i].name, kind |-> OsiPredefined[i].kind,
         host |-> OsiPredefined[i].host, weight |-> OsiPredefined[i].weight,
         disabled |-> OsiPredefined[i].kind = "feature", dynamic |-> FALSE]]

uacpi_initialize_interfaces ==
    /\ interfaces = Predefined0 /\ asker = "none" /\ latest = 0
    /\ offered = {Predefined0[i].name : i \in {j \in DOMAIN Predefined0 : ~Predefined0[j].disabled}}

find_interface_unlocked(name) ==
    LET at == {i \in DOMAIN interfaces : interfaces[i].name = name}
    IN  IF at = {} THEN 0 ELSE CHOOSE i \in at : \A j \in at : i <= j

find_host_interface_unlocked(type) ==
    LET at == {i \in DOMAIN interfaces : interfaces[i].host = type}
    IN  IF at = {} THEN 0 ELSE CHOOSE i \in at : \A j \in at : i <= j

\* An interface that exists is enabled, and ALREADY_EXISTS returned all the same.
uacpi_install_interface(name, kind) ==
    LET i == find_interface_unlocked(name)
        new == [name |-> name, kind |-> kind, host |-> 0, weight |-> 0,
                disabled |-> FALSE, dynamic |-> TRUE]
    IN  /\ interfaces' = IF i # 0 THEN [interfaces EXCEPT ![i].disabled = FALSE]
                         ELSE <<new>> \o interfaces
        /\ offered' = offered \cup {name}
        /\ UNCHANGED <<asker, latest>>

\* A slip: the entry at the head of the list is the one that is unlinked.
UninstallHead(name) ==
    LET i == find_interface_unlocked(name)
    IN  /\ interfaces' = IF i = 0 THEN interfaces
                         ELSE IF interfaces[i].dynamic THEN Tail(interfaces)
                         ELSE [interfaces EXCEPT ![i].disabled = TRUE]
        /\ offered' = offered \ {name}
        /\ UNCHANGED <<asker, latest>>

\* A dynamic interface is unlinked and freed, a predefined one only disabled.
uacpi_uninstall_interface(name) ==
    LET i == find_interface_unlocked(name)
    IN  /\ interfaces' = IF i = 0 THEN interfaces
                         ELSE IF interfaces[i].dynamic THEN RemoveAt(interfaces, i)
                         ELSE [interfaces EXCEPT ![i].disabled = TRUE]
        /\ offered' = offered \ {name}
        /\ UNCHANGED <<asker, latest>>

configure_host_interface(type, enabled) ==
    LET i == find_host_interface_unlocked(type)
    IN  /\ i # 0
        /\ interfaces' = [interfaces EXCEPT ![i].disabled = ~enabled]
        /\ offered' = IF enabled THEN offered \cup {interfaces[i].name}
                      ELSE offered \ {interfaces[i].name}
        /\ UNCHANGED <<asker, latest>>

uacpi_set_interface_query_handler(h) ==
    /\ asker = "none" \/ h = "none"
    /\ asker' = h
    /\ UNCHANGED <<interfaces, latest, offered>>

uacpi_bulk_configure_interfaces(enable, kinds) ==
    LET hit == {i \in DOMAIN interfaces : interfaces[i].kind \in kinds}
        names == {interfaces[i].name : i \in hit}
    IN  /\ interfaces' = [i \in DOMAIN interfaces |->
              IF i \in hit THEN [interfaces[i] EXCEPT !.disabled = ~enable] ELSE interfaces[i]]
        /\ offered' = IF enable THEN offered \cup names ELSE offered \ names
        /\ UNCHANGED <<asker, latest>>

\* The answer, before the query handler of the host has its say.
is_supported(name) ==
    LET i == find_interface_unlocked(name) IN i # 0 /\ ~interfaces[i].disabled

\* The weight counts even of an interface that is disabled.
uacpi_handle_osi(name) ==
    LET i == find_interface_unlocked(name)
    IN  /\ latest' = IF i # 0 /\ interfaces[i].weight > latest THEN interfaces[i].weight ELSE latest
        /\ UNCHANGED <<interfaces, asker, offered>>

\* uacpi_deinitialize_interfaces, and the next uacpi_initialize_interfaces.
uacpi_deinitialize_interfaces ==
    /\ interfaces' = Predefined0 /\ asker' = "none" /\ latest' = 0
    /\ offered' = {Predefined0[i].name : i \in {j \in DOMAIN Predefined0 : ~Predefined0[j].disabled}}

OsiInit == uacpi_initialize_interfaces

OsiNext ==
    \/ \E n \in OsiNames, k \in Kinds \ {"none"} : uacpi_install_interface(n, k)
    \/ \E n \in OsiNames : uacpi_uninstall_interface(n) \/ uacpi_handle_osi(n)
    \/ \E t \in {OsiPredefined[i].host : i \in DOMAIN OsiPredefined} \ {0}, e \in BOOLEAN :
          configure_host_interface(t, e)
    \/ \E h \in {"none", "yes", "no"} : uacpi_set_interface_query_handler(h)
    \/ \E e \in BOOLEAN, k \in SUBSET (Kinds \ {"none"}) : uacpi_bulk_configure_interfaces(e, k)
    \/ uacpi_deinitialize_interfaces

(***************************************************************************)
(* Properties.                                                             *)
(***************************************************************************)
OsiTypeOK ==
    /\ \A i \in DOMAIN interfaces : interfaces[i].name \in OsiNames /\ interfaces[i].kind \in Kinds
    /\ asker \in {"none", "yes", "no"} /\ latest \in Nat /\ offered \subseteq OsiNames

\* After any history of installing, removing, enabling, bulk configuration and reset,
\* firmware is told that exactly the interfaces the host last asked for are supported.
AnswersAsConfigured == \A n \in OsiNames : is_supported(n) <=> n \in offered
=============================================================================
