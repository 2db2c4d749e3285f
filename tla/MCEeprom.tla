------------------------------ MODULE MCEeprom -------------------------------
\* Two diagnoses of three requests each, and a READ of another actor
EXTENDS Eeprom

MCTypeOf == <<"READ_TO_BUFFER", "WRITE", "READ_TO_BUFFER",
              "READ_TO_BUFFER", "WRITE", "READ_TO_BUFFER", "READ">>
=============================================================================
