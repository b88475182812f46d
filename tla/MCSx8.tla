------------------------------- MODULE MCSx8 --------------------------------
(* Instances of Sx8: two requests for one port, which then has one to send      *)
(* while another is in flight, and one for a second port; two of them map to    *)
(* one scatter/gather entry and the other to two, so that two may be sent with  *)
(* two or three entries together and the largest alone leaves none to spare; a  *)
(* channel scan finds nothing or a disk on every port.                          *)
EXTENDS Sx8

MCRequest == {<<0, 1>>, <<0, 2>>, <<1, 1>>}
MCEntries == [r \in MCRequest |-> {r[2]}]
MCAnyEntries == [r \in MCRequest |-> 1 .. CARM_MAX_REQ_SG]
MCScans   == {{}, 0 .. CARM_MAX_PORTS - 1}

=============================================================================
