--------------------------- MODULE MCFilterTable ---------------------------
(* Three workloads: many threads, many addresses of few threads, and lines *)
(* that are left out or reuse a thread id.                                 *)
EXTENDS FilterTable

L(p, t, a) == [pid |-> p, tid |-> t, addr |-> a]

(* Different addresses that typeAddr takes for the same number.            *)
A == <<1, 10>>
B == <<2, 0>>

ManyThreads   == {L(1, 1, A), L(1, 2, A), L(2, 3, <<3>>), L(2, 4, B), L(3, 5, B)}
ManyAddresses == {L(1, 1, A), L(1, 1, B), L(1, 1, <<3>>), L(1, 1, <<4>>), L(2, 2, A)}
OddLines      == {L(1, 1, A), L(2, 1, A), L(0, 0, A), L(0, 2, B), L(1, 1, <<8>>), L(1, 1, <<0, 1>>)}

MCWorkloads ==
  [threads   |-> {f \in BoundedSeq(ManyThreads, 5) : IsInjective(f)},
   addresses |-> BoundedSeq(ManyAddresses, 4),
   odd       |-> BoundedSeq(OddLines, 3)]
=============================================================================
