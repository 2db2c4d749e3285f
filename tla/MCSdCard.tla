------------------------------ MODULE MCSdCard -------------------------------
\* One operation that writes a file, after the MOUNT of every start
EXTENDS SdCard

MCFileType == <<"WRITE">>
=============================================================================
