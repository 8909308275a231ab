---- MODULE MCIpc ----
EXTENDS IpcConnection
MCFields == <<"status", "lifecycle">>
====
