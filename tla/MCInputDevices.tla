--------------------------- MODULE MCInputDevices ---------------------------
(* A small instance of InputDevices for TLC: a card and two input-event    *)
(* devices, of which one may be missing after a reload.                    *)
EXTENDS InputDevices, TLC

CONSTANTS card, kbd1, kbd2

MCApi == card :> "ApiGpio" @@ kbd1 :> "ApiInput" @@ kbd2 :> "ApiInput"

(* The key 48 of kbd1 has no line any more. *)
MCKeys == card :> {0} @@ kbd1 :> {30, 48} @@ kbd2 :> {16}

MCInverted == {<<card, 0>>}
MCCommanded == {<<kbd1, 0>>}
MCEvents ==
  <<card, 0>> :> "falling" @@ <<kbd1, 0>> :> "both" @@ <<kbd2, 0>> :> "rising"

(* The card's line feeds a watchdog, that of kbd2 names one that is not    *)
(* there.                                                                  *)
MCPinDog == <<card, 0>> :> 0 @@ <<kbd1, 0>> :> -1 @@ <<kbd2, 0>> :> 1
MCNormalState == 0 :> "Transition"
=============================================================================
