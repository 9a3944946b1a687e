----------------------------- MODULE MCRegistry -----------------------------
(* One address, one page, and three events nobody asked for among changes of  *)
(* adb's table, requests, failures and the news of other devices.             *)
EXTENDS DeviceRegistry
=============================================================================
