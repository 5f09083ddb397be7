--------------------------- MODULE MCFFICallbacks ---------------------------
(***************************************************************************)
(* FFICallbacks with three native threads, or with two.                    *)
(***************************************************************************)
EXTENDS FFICallbacks

CONSTANTS t1, t2, t3

NoThread == {}
OneThread == {t1}
TwoThreads == {t1, t2}
ThreeThreads == {t1, t2, t3}
=============================================================================
