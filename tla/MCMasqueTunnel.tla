--------------------------- MODULE MCMasqueTunnel ---------------------------
(* Sessions that differ in what is hard to read: entries of both lengths,  *)
(* capsules cut short, unknown types, integers of all widths; and          *)
(* datagrams that are not for the stack.                                   *)
EXTENDS MasqueTunnel

V4 == <<4, 10, 0, 0, 2, 32>>
V6 == <<6>> \o [i \in 1 .. 16 |-> i] \o <<128>>
Bad == <<5, 1, 2, 3, 4, 5>>
Route == <<4, 1, 1, 1, 1, 2, 2, 2, 2, 6>>

C(type, width, entries, cut) ==
  [type |-> type, width |-> width, entries |-> entries, cut |-> cut]
D(context, width, packet) ==
  [context |-> context, width |-> width, packet |-> packet]

ControlStreams ==
  {<<C(1, 2, <<V4>>, 0), C(300, 2, << >>, 0)>>,
   <<C(3, 1, <<Route>>, 0), C(1, 1, <<Bad>>, 5)>>,
   <<C(57005, 4, << >>, 0), C(1, 1, <<V4>>, 1)>>,
   <<C(1, 1, <<V6>>, 0)>>}

DatagramFlows ==
  {<<D(0, 1, <<69>>), D(0, 4, <<96>>), D(7, 1, <<69>>)>>,
   <<D(2, 2, << >>), D(0, 1, << >>), D(0, 2, <<70>>)>>}

MCSessions ==
  {[capsules |-> cs, datagrams |-> << >>] : cs \in ControlStreams}
    \cup {[capsules |-> << >>, datagrams |-> ds] : ds \in DatagramFlows}
    \cup {[capsules |-> <<C(1, 1, <<V4>>, 4)>>,
           datagrams |-> <<D(0, 1, <<69>>)>>]}
=============================================================================
