------------------------------- MODULE MCAirtime -------------------------------
(* A window of ten ticks and frames of one and three; the clock wraps once. *)
EXTENDS Airtime

MCFrameTimes == {1, 3}
MCBootClocks == {0, 6}

=============================================================================
