--------------------------- MODULE FibProcessorMC ---------------------------
(***************************************************************************)
(* Two small ensembles for FibProcessor.  Service 2 of the first and of    *)
(* the second have different labels, places and components; the label of   *)
(* service 1 of the first is that of service 2 of the second.  A FIB of    *)
(* the first carries the FIGs that create services without naming them.    *)
(***************************************************************************)
EXTENDS FibProcessor

One == <<"o", "n", "e">>
Two == <<"t", "w", "o">>
Six == <<"s", "i", "x">>
Fir == <<"f", "i", "r">>
Sec == <<"s", "e", "c">>

Long(s, a, option, level, size) ==
  [short |-> FALSE, SubChId |-> s, startAdr |-> a, option |-> option,
   level |-> level, size |-> size]
Short(s, a, i) == [short |-> TRUE, SubChId |-> s, startAdr |-> a, tabelIndex |-> i]
Audio(s)    == [TMid |-> 0, SubChId |-> s]
Packet(c)   == [TMid |-> 3, SCId |-> c]
Other       == [TMid |-> 1]
Fig(kind, entries) == [fig |-> kind, entries |-> entries]
Label(SId, l) == <<[fig |-> "1/1", SId |-> SId, label |-> l]>>
Name(n)       == [fig |-> "1/0", label |-> n]
Change(flag, occ) ==
  [fig |-> "0/0", alarm |-> FALSE, changeFlag |-> flag, highpart |-> 0,
   lowpart |-> 7, occurrenceChange |-> occ]

FirstEnsemble == <<
  <<Fig("0/1", <<Long(1, 100, 0, 2, 48), Short(2, 200, 5)>>)>>,
  <<Fig("0/2", <<[SId |-> 1, comps |-> <<Audio(1), Packet(7)>>],
                 [SId |-> 2, comps |-> <<Audio(2), Other>>]>>)>>,
  Label(1, One), Label(2, Two),
  <<Fig("0/3", <<[SCId |-> 7, SubChId |-> 2, DSCTy |-> 60,
                  packetAddress |-> 3]>>)>>,
  <<Name(Fir), Change(1, 7),
    Fig("0/17", <<[SId |-> 2, language |-> None, type |-> 4]>>),
    Fig("0/16", <<[SId |-> 2, pNum |-> 300]>>),
    [fig |-> "0/9"],
    Fig("0/14", <<[SubChId |-> 0, FEC |-> 1], [SubChId |-> 2, FEC |-> 1]>>)>> >>

SecondEnsemble == <<
  <<Fig("0/1", <<Long(1, 300, 1, 1, 42)>>)>>,
  <<Fig("0/2", <<[SId |-> 2, comps |-> <<Audio(1)>>],
                 [SId |-> 3, comps |-> <<Packet(0)>>]>>),
    Fig("0/5", <<[short |-> TRUE, SubChId |-> 1, language |-> 8]>>),
    Fig("0/13", <<[SId |-> 3, SCIdS |-> 0, appType |-> 2]>>)>>,
  Label(2, One) \o Label(3, Six), <<Name(Sec)>> >>

MCBroadcast == [c \in Channel |->
                  IF c = "5A" THEN FirstEnsemble ELSE SecondEnsemble]
=============================================================================
