----------------------------- MODULE MCIpsTool -----------------------------
(* Instances of IpsTool for TLC: two patched places in an image of five    *)
(* bytes, below, across, at and behind its ends, and a source with lines   *)
(* in front of its first .org.                                             *)
EXTENDS IpsTool

Images == {<<0, 0, 0, 0, 0>>, <<1, 0, 1, 0, 1>>}

Org(a) == [kind |-> "org", addr |-> a]
Code(d) == [kind |-> "code", bytes |-> d]
Other == [kind |-> "none"]

Datas == {<<1>>, <<2, 0>>, <<1, 0, 2>>}
Ends == {<<1>>, <<2, 0>>}
Two(a, d, b, e) == <<Org(a), Code(d), Org(b), Code(e)>>

Texts ==
  {Two(a, d, b, e) : a \in {0, 2, 3}, d \in Datas, b \in {4, 5, 6}, e \in Ends}
  \cup {Two(5, d, 2, e) : d \in Datas, e \in Ends}
  \cup {<<Other, Code(<<2>>), Org(a), Code(<<2>>), Other, Code(<<0, 1>>)>> : a \in {0, 2, 4}}
  \cup {<<Other>>}
=============================================================================
