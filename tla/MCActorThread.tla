--------------------------- MODULE MCActorThread ----------------------------
(* Small instances of ActorThread for TLC. *)
EXTENDS ActorThread

CONSTANTS input, medium, spi, flash, eeprom

InputHome == [a \in Actors |-> input]
MediumHome == [a \in Actors |-> medium]
EveryActor == [t \in Threads |-> <<spi, flash>>]
EepromFirst == [t \in Threads |-> <<eeprom, spi>>]
SmallQueues == [t \in Threads |-> 2]
LargeQueues == [t \in Threads |-> MaxEvents]
AllHandle == [a \in Actors |-> "handle"]
EepromReceives == [a \in Actors |-> IF a = eeprom THEN "receive" ELSE "handle"]
=============================================================================
