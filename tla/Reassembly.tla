------------------------------ MODULE Reassembly ------------------------------
(***************************************************************************)
(* The reassembly of the capture loop as a whole: IPv4 fragments are       *)
(* rejoined, and what a rejoined datagram holds goes through the segment   *)
(* buffers like any other TCP packet; one clock, one sweep and one reset   *)
(* for both.                                                               *)
(***************************************************************************)
EXTENDS Fragments, Sniffer

CONSTANT Carries   \* the segment a datagram holds: its direction and first byte

ASSUME ReassemblyAssumption ==
  \A d \in Datagrams :
    /\ Carries[d].key \in StreamKeys /\ Carries[d].from \in Nat
    /\ Carries[d].from + DatagramLen[d] <= Len(Content[Carries[d].key])

rVars == <<fVars, nVars>>

\* rebuild_ipv4_datagram: the first fragment's header over the bytes held, which
\* are the whole payload of the datagram now.
RejoinedPayload(datagram) ==
  [i \in 1..Len(datagram.bytes) |->
     LET c == Carries[datagram.bytes[i]] IN Content[c.key][c.from + i]]

\* An incomplete datagram says so; a complete one as its segment does.
WithDatagramStatus(results, datagram, cutAt) ==
  LET status == Attribute(datagram.status, cutAt, nNow)
      Told(out) == [out EXCEPT !.status = IF status # "completed" \/ @ = Hole THEN status ELSE @]
  IN {[r EXCEPT !.out = Told(r.out)] : r \in results}

\* sniff_inner on a fragment, with what feed returned.
FragmentResults(datagram, cutAt) ==
  IF datagram = Hole THEN {[segs |-> nSegs, frames |-> nFrames, out |-> Nothing]}
  ELSE LET c == Carries[datagram.header]
           payload == RejoinedPayload(datagram)
       IN WithDatagramStatus(
            SniffInner(c.key, (FirstSeq[c.key] + c.from) % SeqMod, payload, Len(payload), FALSE,
                       cutAt, nNow),
            datagram, cutAt)

FragmentPacket(key, d, offset, n, cut) ==
  /\ nScenario = "fragmented"
  /\ FragFeed(key, d, offset, n, cut, EvictDue)
  /\ Sniffed(FragmentResults(fOut', CutAt(cut > 0)))
  /\ nCut' = CutAt(cut > 0)
  /\ UNCHANGED nSeen

ReassemblyInit == FragInit /\ SniffInit

ReassemblyNext ==
  \/ \E key \in FragKeys, d \in Datagrams, cut \in Cuts :
       \E offset \in 0..DatagramLen[d]-1 : \E n \in 1..DatagramLen[d] - offset :
         FragmentPacket(key, d, offset, n, cut)
  \/ /\ FragOther(EvictDue)
     /\ \/ \E key \in StreamKeys : \E i, j \in Edges[key] : \E cut \in 0..1 :
             j - i \in 1..MaxPayload /\ Segment(key, i, j - i, cut)
        \/ \E key \in StreamKeys : \E i \in Edges[key] : Inject(key, i, 2)
        \/ \E key \in StreamKeys : Syn(key)
        \/ OtherPacket
  \/ CutFrame /\ UNCHANGED fVars
  \/ FragClear /\ SniffReset
  \/ FragTick /\ SniffTick

ReassemblySpec == ReassemblyInit /\ [][ReassemblyNext]_rVars

-----------------------------------------------------------------------------
(* Properties *)

\* write_first_seen_wins, rebase, JAM-169 and JAM-172: a byte a live fragment group
\* or a live segment buffer holds, a group's header and its end are never
\* replaced, and a decision never shows another byte at a sequence number,
\* whatever overlaps or claims another end later, wherever the numbers wrap.
FirstSeenWins == [][FragFirstSeen /\ SegFirstSeen]_rVars

\* FragmentReassembler and TcpReassembler: bytes_held is what the groups and the
\* buffers account for; it and their numbers are under their ceilings after
\* every call; every group ends in exactly one outcome.
ReassemblyAccounted == FragAccounted /\ SegAccounted
=============================================================================
