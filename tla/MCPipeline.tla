----------------------------- MODULE MCPipeline -----------------------------
EXTENDS Pipeline

CONSTANTS burglary, tamper, dispatcher, websocket

MCHubEvents == {burglary, tamper}
MCEvents == MCHubEvents \cup {"DBFAIL", "DBOK"}
MCAlarms == {burglary, tamper}
=============================================================================
