------------------------- MODULE MCKeepPartnersAlive -------------------------
(* KeepPartnersAlive on small process tables, for TLC. *)
EXTENDS KeepPartnersAlive, TLC

CONSTANTS p1, p2, p3, p4, s1, port1, port2, port3

\* With two partners, room for one deployment, for one and a half, or for two.
TwoPids   == {p1, p2}
TwoPidsAndStranger == {p1, p2, s1}
ThreePidsAndStranger == {p1, p2, p3, s1}
FourPids  == {p1, p2, p3, p4}
OneStranger == {s1}
TwoPorts  == {port1, port2}
ThreePorts == {port1, port2, port3}

BothClasses == {"poller", "select"}
SelectOnly == {"select"}

\* Neither the kernel nor the code distinguishes unused pids or free ports.
PidSymmetry ==
  Permutations({p1, p2, p3}) \cup Permutations({port1, port2, port3})
=============================================================================
