------------------------------ MODULE Channel ------------------------------
(***************************************************************************)
(* Two things that the channel does for the module in the game and that do *)
(* not share state: it reads config.ini and it connects the consoles.  A   *)
(* behaviour is one of one part, the other rests.                          *)
(***************************************************************************)
EXTENDS Settings, Connect

VARIABLE part

channelVars == <<settingsVars, connectVars, part>>

ChannelInit ==
    /\ SettingsInit /\ ConnectInit
    /\ part \in {"settings", "connection"}

ChannelNext ==
    /\ UNCHANGED part
    /\ \/ part = "settings" /\ SettingsNext /\ UNCHANGED connectVars
       \/ part = "connection" /\ ConnectNext /\ UNCHANGED settingsVars

ChannelSpec == ChannelInit /\ [][ChannelNext]_channelVars
=============================================================================
