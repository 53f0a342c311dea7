------------------------------ MODULE MCStream ------------------------------
(* A buffer of two characters and the NUL, both modes, and the hardware of  *)
(* the Arduino port, which is connected or not.                             *)
EXTENDS Stream

ArduinoStates == {{}, {"NO_RESPONSE"}}

\* MessagesAreLines is proved for such a buffer.
ASSUME BufferHoldsText == RoomForText
=============================================================================
