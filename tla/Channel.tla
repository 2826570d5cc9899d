------------------------------ MODULE Channel ------------------------------
(***************************************************************************)
(* What mailbox.c promises its callers, with no lock, semaphore, reference *)
(* count or thread in it.  A mailbox is a first-in-first-out channel of    *)
(* entries with one reader.  It is opened once, shut once, read only while *)
(* it is open, and disappears only after it was shut and emptied.  An      *)
(* entry nobody will read is discarded; a discarded message may be         *)
(* answered by a bounce notice in the channel of its sender.               *)
(***************************************************************************)
EXTENDS Sequences, Naturals

CONSTANTS Boxes,        \* the channels, one per mailbox
          Entries       \* what may travel through one

VARIABLES chan,         \* chan[m]: entries added to m and not yet taken out
          got,          \* got[m]: entries the reader of m has received, in order
          phase         \* phase[m]: "new", "open", "shut" or "gone"

chvars == <<chan, got, phase>>

ChannelInit ==
  /\ chan = [m \in Boxes |-> <<>>]
  /\ got = [m \in Boxes |-> <<>>]
  /\ phase = [m \in Boxes |-> "new"]

Open(m) ==
  /\ phase[m] = "new"
  /\ phase' = [phase EXCEPT ![m] = "open"]
  /\ UNCHANGED <<chan, got>>

\* A defunct mailbox still accepts entries: mailbox.c never tests the flag
\* when it adds one.
Put(m, e) ==
  /\ phase[m] \in {"open", "shut"}
  /\ chan' = [chan EXCEPT ![m] = Append(@, e)]
  /\ UNCHANGED <<got, phase>>

Get(m) ==
  /\ phase[m] = "open" /\ chan[m] # <<>>
  /\ got' = [got EXCEPT ![m] = Append(@, Head(chan[m]))]
  /\ chan' = [chan EXCEPT ![m] = Tail(@)]
  /\ UNCHANGED phase

Shut(m) ==
  /\ phase[m] = "open"
  /\ phase' = [phase EXCEPT ![m] = "shut"]
  /\ UNCHANGED <<chan, got>>

Discard(m) ==
  /\ phase[m] = "shut" /\ chan[m] # <<>>
  /\ chan' = [chan EXCEPT ![m] = Tail(@)]
  /\ UNCHANGED <<got, phase>>

\* Discarding the head of m and telling s, the mailbox that sent it.
DiscardAndBounce(m, s) ==
  /\ phase[m] = "shut" /\ chan[m] # <<>>
  /\ s # m /\ phase[s] \in {"open", "shut"}
  /\ Head(chan[m]).kind = "MESSAGE" /\ Head(chan[m]).from = s
  /\ \E e \in Entries :
       /\ e.kind = "BOUNCE"
       /\ chan' = [chan EXCEPT ![m] = Tail(@), ![s] = Append(@, e)]
  /\ UNCHANGED <<got, phase>>

Vanish(m) ==
  /\ phase[m] = "shut" /\ chan[m] = <<>>
  /\ phase' = [phase EXCEPT ![m] = "gone"]
  /\ UNCHANGED <<chan, got>>

ChannelNext ==
  \E m \in Boxes :
    \/ Open(m) \/ Get(m) \/ Shut(m) \/ Discard(m) \/ Vanish(m)
    \/ \E e \in Entries : Put(m, e)
    \/ \E s \in Boxes : DiscardAndBounce(m, s)

ChannelSpec == ChannelInit /\ [][ChannelNext]_chvars
=============================================================================
