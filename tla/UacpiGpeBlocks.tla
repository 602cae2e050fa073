--------------------------- MODULE UacpiGpeBlocks ---------------------------
(***************************************************************************)
(* GPE blocks and the interrupt contexts they hang from (event.c): the     *)
(* list g_gpe_interrupt_head with one context per IRQ, the list of blocks  *)
(* of each context, and the lookup of an event by device and index.        *)
(***************************************************************************)
EXTENDS Integers, Sequences, FiniteSets, SequencesExt

CONSTANTS GpeDevice,  \* devices with a GPE block, \_GPE among them
          FadtDevice, \* \_GPE
          Irq,        \* interrupt numbers
          SciIrq,     \* fadt.sci_int
          NumEvents,  \* events of a block: num_registers * 8
          FadtBlocks  \* base indices of the blocks the FADT describes

\* initialize_gpes ignores a second block that starts before the end of the first.
ASSUME BlocksAssumption ==
    /\ FadtDevice \in GpeDevice
    /\ NumEvents \in Nat \ {0}
    /\ FadtBlocks \in Seq(Nat)
    /\ \A m, n \in DOMAIN FadtBlocks :
          m < n => FadtBlocks[m] + NumEvents <= FadtBlocks[n]

VARIABLES ctxs,     \* the contexts reachable from g_gpe_interrupt_head, in order
          irqs,     \* IRQs with handle_gpes installed
          sciCtx    \* did the SCI handler get a context?

blocksVars == <<ctxs, irqs, sciCtx>>

\* A block is its device and base index; live is FALSE once the context is freed.
Block(d, base) == [device |-> d, base |-> base]

find_gpe_interrupt_ctx(irq) ==
    {i \in DOMAIN ctxs : ctxs[i].irq = irq}

\* find_or_create_gpe_interrupt_ctx and the link of the block, newest first.  The
\* SCI's own handler is installed elsewhere.
create_gpe_block(d, irq, base) ==
    LET found == find_gpe_interrupt_ctx(irq)
        i == CHOOSE n \in found : \A m \in found : n <= m
    IN  IF found # {}
        THEN /\ ctxs' = [ctxs EXCEPT ![i].blocks = <<Block(d, base)>> \o @]
             /\ UNCHANGED irqs
        ELSE /\ ctxs' = <<[irq |-> irq, blocks |-> <<Block(d, base)>>,
                           live |-> TRUE]>> \o ctxs
             /\ irqs' = IF irq = SciIrq THEN irqs ELSE irqs \cup {irq}

\* gpe_from_block: the bound is off by one, an offset of num_events passes.
gpe_from_block(b, idx) ==
    IF idx < b.base \/ idx - b.base > NumEvents THEN -1 ELSE idx - b.base

\* The blocks of a list that have event idx of device d, and the first of some places.
Hits(blocks, d, idx) ==
    {n \in DOMAIN blocks : blocks[n].device = d /\ gpe_from_block(blocks[n], idx) >= 0}
First(S) == CHOOSE n \in S : \A m \in S : n <= m

\* A plausible slip: the search goes on after a block that has the event.
get_gpe_last(d, idx) ==
    LET having == {i \in DOMAIN ctxs : Hits(ctxs[i].blocks, d, idx) # {}}
        i == CHOOSE n \in having : \A m \in having : m <= n
        hits == Hits(ctxs[i].blocks, d, idx)
        b == ctxs[i].blocks[CHOOSE n \in hits : \A m \in hits : m <= n]
    IN  IF having = {} THEN <<>> ELSE <<b, gpe_from_block(b, idx)>>

\* for_each_gpe_block with do_find_gpe: the first block of the device that has it.
get_gpe(d, idx) ==
    LET having == {i \in DOMAIN ctxs : Hits(ctxs[i].blocks, d, idx) # {}}
        blocks == ctxs[First(having)].blocks
        b == blocks[First(Hits(blocks, d, idx))]
    IN  IF having = {} THEN <<>> ELSE <<b, gpe_from_block(b, idx)>>

uacpi_install_gpe_block(d, irq) ==
    /\ get_gpe(d, 0) = <<>>
    /\ create_gpe_block(d, irq, 0)
    /\ UNCHANGED sciCtx

\* uninstall_gpe_block: the block leaves the list of its context; a context left
\* without blocks is freed, but nothing sets ctx->prev, so it stays linked.
uacpi_uninstall_gpe_block(d) ==
    \E i \in DOMAIN ctxs :
        /\ Hits(ctxs[i].blocks, d, 0) # {}
        /\ \A j \in 1 .. i - 1 : Hits(ctxs[j].blocks, d, 0) = {}
        /\ LET rest == RemoveAt(ctxs[i].blocks, First(Hits(ctxs[i].blocks, d, 0)))
           IN  /\ ctxs' = [ctxs EXCEPT ![i].blocks = rest,
                                       ![i].live = ctxs[i].live /\ rest # <<>>]
               /\ irqs' = IF rest = <<>> /\ ctxs[i].irq # SciIrq
                          THEN irqs \ {ctxs[i].irq} ELSE irqs
        /\ UNCHANGED sciCtx

\* initialize_gpes and the installation of handle_sci, once: the SCI handler is
\* given the head of the list as it is then.
uacpi_initialize_events ==
    /\ ~sciCtx
    /\ LET blocks == [n \in 1 .. Len(FadtBlocks) |->
                        Block(FadtDevice, FadtBlocks[Len(FadtBlocks) + 1 - n])]
       IN  ctxs' = IF blocks = <<>> THEN <<>>
                   ELSE <<[irq |-> SciIrq, blocks |-> blocks, live |-> TRUE]>>
    /\ sciCtx' = TRUE
    /\ UNCHANGED irqs

BlocksInit == ctxs = <<>> /\ irqs = {} /\ sciCtx = FALSE

\* Drivers install and remove blocks of devices of their own, never those of \_GPE.
BlocksNext ==
    \/ uacpi_initialize_events
    \/ /\ sciCtx
       /\ \E d \in GpeDevice \ {FadtDevice} :
            \/ \E irq \in Irq : Len(ctxs) < 3 /\ uacpi_install_gpe_block(d, irq)
            \/ uacpi_uninstall_gpe_block(d)

(***************************************************************************)
(* Properties.                                                             *)
(***************************************************************************)
BlocksTypeOK ==
    /\ \A i \in DOMAIN ctxs : ctxs[i].irq \in Irq \cup {SciIrq}
    /\ irqs \subseteq Irq

\* The event a call finds is one of its block: with the two FADT blocks of \_GPE
\* behind each other the index past the first block is in the second.  This is as
\* far as the list can be walked: a freed context that is still linked ends it.
FindsItsEvent ==
    sciCtx /\ (\A c \in DOMAIN ctxs : ctxs[c].live) =>
        \A n \in DOMAIN FadtBlocks, i \in 0 .. NumEvents - 1 :
            get_gpe(FadtDevice, FadtBlocks[n] + i)
                = <<Block(FadtDevice, FadtBlocks[n]), i>>
=============================================================================
