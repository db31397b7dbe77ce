--------------------------- MODULE MasterSilence ----------------------------
(***************************************************************************)
(* PowerControl with a stopwatch on the master box: how long ago it last   *)
(* sent something, against how long ago udp_recv() last took note of it.   *)
(* Nothing else is added: a step here is a step of PowerControl, with what *)
(* it tells an observer of the socket and of the log.                      *)
(*                                                                         *)
(* The stopwatch assumes a server that keeps up: no second goes by between *)
(* a datagram and its reading unless udp_recv() is busy with another.      *)
(***************************************************************************)
EXTENDS PowerControl

VARIABLES
  sinceSent,  \* ticks since the master box last sent a datagram
  raised      \* history: the last handler to end has raised an exception,
              \* and udp_recv() has not taken note of its datagram

watchVars == <<sinceSent, raised>>
silenceVars == <<vars, watchVars>>

SilenceInit == Init /\ sinceSent = MasterTimeout + 1 /\ raised = FALSE

KeepsUp == inbox # <<>> => call["udp"] # NoCall

Sends == (MasterPings \/ MasterCommands) /\ sinceSent' = 0 /\ UNCHANGED raised

Passes ==
  /\ KeepsUp
  /\ Tick
  /\ sinceSent' = Up(sinceSent, MasterTimeout + 1)
  /\ UNCHANGED raised

\* A handler ends: the code after handler_recv(), or the except clause.
Ends ==
  /\ \/ (RecvPing \/ RecvSetPowerRate) /\ raised' = FALSE
     \/ \E raises \in BOOLEAN :
          /\ OrphanEnds("udp", raises) \/ \E k \in Connectors : UdpEnds(k, raises)
          /\ raised' = raises
     \/ /\ \/ RecvRaises
           \/ \E k \in Connectors : CallBreaks("udp", k) \/ CallTimesOut("udp", k)
        /\ raised' = TRUE
  /\ UNCHANGED sinceSent

Others ==
  /\ \/ RecvCommand \/ DurStep \/ Poll \/ CurrentChanges
     \/ \E k \in Connectors :
          \/ Transmit("udp", k)
          \/ StatusNotification(k) \/ SecondConnector(k)
          \/ StationAccepts(k) \/ StationRefuses(k) \/ Meddle(k)
          \/ Vehicle(k) \/ Drop(k) \/ Reconnect(k)
  /\ UNCHANGED watchVars

SilenceNext == Sends \/ Passes \/ Ends \/ Others

SilenceSpec == SilenceInit /\ [][SilenceNext]_silenceVars

(* A master box that was heard from within the timeout does not count as    *)
(* offline: task_duration.py:66 shuts the chargers down "when master-box    *)
(* offline".                                                                *)
OfflineOnlyIfSilent == MasterLost => sinceSent \notin 1..MasterTimeout

(* It does so for two reasons only: a command of the master box is being    *)
(* handled just now, or the handler of the last one has raised.             *)
OfflineOnlyIfBusy ==
  MasterLost /\ sinceSent \in 1..MasterTimeout => call["udp"] # NoCall \/ raised
=============================================================================
