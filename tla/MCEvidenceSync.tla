--------------------------- MODULE MCEvidenceSync ---------------------------
(* Small instances of EvidenceSync.                                          *)
EXTENDS EvidenceSync

CONSTANTS u1, u2, d1, d2

\* The two devices drew the same uid for one event each.
TwoDevices == {<<d1, u1>>, <<d1, u2>>, <<d2, u1>>}

\* One and two events, and a batch over the limit of two.
FewBatches == {<<u1>>, <<u2>>, <<u1, u2>>, <<u2, u1, u1>>}

\* One device, its two events in either order, repeated, and over the limit.
OneDevice == {<<d1, u1>>, <<d1, u2>>}

AllBatches ==
  {<<u1>>, <<u2>>, <<u1, u2>>, <<u2, u1>>, <<u1, u1>>, <<u1, u2, u1>>}

=============================================================================
