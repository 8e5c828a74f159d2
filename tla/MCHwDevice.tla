----------------------------- MODULE MCHwDevice -----------------------------
(* Two slots and five pins, of which the bus has one; one card of two blocks *)
(* of two bytes, written across the border between them. Requests          *)
(* name free pins, a pin of the bus, the same pin twice and no pin at all.  *)
EXTENDS HwDevice

R(type, pins) == [type |-> type, pins |-> pins]
MCRequests ==
    { R("sd", <<1, 2>>), R("sd", <<1, 5>>), R("keypad", <<3, 2, 4>>), R("keypad", <<3, 4, 4>>),
      R("keypad", <<1, 3, 4>>), R("dht22", <<3, 9>>), R("dht22", <<2, 4>>) }
MCKeys == <<"k">>
=============================================================================
