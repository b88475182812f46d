----------------------------- MODULE MCRtl8139 -----------------------------
(* The 8139 driver in five environments: packets that are sent or aborted on *)
(* a device that may be closed; packets on a device with a media thread that *)
(* may be suspended; good and bad frames with both; traffic in both          *)
(* directions; and frames while no packet is ever sent, so that the timeout  *)
(* task resets the chip under the poll routine.                              *)
EXTENDS Rtl8139

Load(receive, results, n, closes, suspends, reports) ==
  [rx |-> receive, tx |-> results, lead |-> n, close |-> closes,
   suspend |-> suspends, link_change |-> reports]

MCLoads == {Load({}, {"ok", "abort"}, 3, TRUE, FALSE, TRUE),
            Load({}, {"ok"}, 2, FALSE, TRUE, FALSE),
            Load({"good", "bad"}, {}, 0, TRUE, TRUE, TRUE),
            Load({"good"}, {"ok"}, 1, FALSE, FALSE, TRUE),
            Load({"good", "bad"}, {}, 2, FALSE, FALSE, TRUE)}

\* Packets that are sent, on a device that is neither closed nor suspended.
MCTimeoutLoads == {Load({}, {"ok"}, 3, FALSE, FALSE, TRUE)}

=============================================================================
