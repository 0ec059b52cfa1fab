----------------------------- MODULE MCHubDaemon -----------------------------
(***************************************************************************)
(* Values for the constants of HubDaemon that a configuration file cannot  *)
(* write down.                                                             *)
(***************************************************************************)
EXTENDS HubDaemon

\* Everything that may go wrong without breaking the count of outstanding
\* packets: any loss, any packet of a transaction refused or corrupted, the
\* first two synchronous requests refused or their answers corrupted.
CountedFaults ==
    ({"lose request", "lose answer"} \X Refs)
        \cup ({"nack", "corrupt answer"} \X (Refs \ {"FTDI_RESET_CONTROL"}))
        \cup {<<"child answers", "DISCOVER">>}

\* Everything may go wrong with every packet.
AllFaults ==
    ({"lose request", "lose answer", "nack", "corrupt answer"} \X Refs)
        \cup {<<"child answers", "DISCOVER">>}

\* The packets whose answers a transaction waits for before its commands.
AwaitedRefs == {"MODULE_STATUS", "BATTERY_VOLTAGE", "BULK_INPUT"}

\* What may go wrong in the transaction that finds out about a reset without
\* the daemon forgetting it, and without leaving a disable refused.
ResetSafeFaults ==
    ({"lose request", "lose answer", "corrupt answer"}
        \X (TransactionRefs \ AwaitedRefs))
        \cup ({"nack"} \X {"KEEP_ALIVE", "MOTOR_SET_RUN_MODE"})

\* The two single faults that keep settings from the hub.
FtdiCorrupt == {<<"corrupt answer", "FTDI_RESET_CONTROL">>}
BatteryNack == {<<"nack", "BATTERY_VOLTAGE">>}
=============================================================================
