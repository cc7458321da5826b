------------------------------ MODULE MCDevice ------------------------------
(* The parts of the app that share no state with each other, one of them   *)
(* at a time: the installation of an archive and a library, each in two    *)
(* versions; the campaign in a room that grants two items; and the sound   *)
(* of the game's activity.  A part that is not looked at stays as it       *)
(* starts.                                                                 *)
EXTENDS ModTransaction, Campaign, AndroidAudio

CONSTANTS coconut, barrel

VARIABLE part

Room == <<coconut, barrel>>

DeviceInit ==
    /\ part \in {"mods", "rewards", "sound"}
    /\ Init /\ CampaignInit /\ AudioInit
    /\ part # "mods" => \A n \in Name : file[n] = Absent
    /\ part # "rewards" => running.binding = "none"

DeviceNext ==
    /\ UNCHANGED part
    /\ \/ part = "mods" /\ Next /\ UNCHANGED <<campaignVars, audioVars>>
       \/ part = "rewards" /\ CampaignNext /\ UNCHANGED <<vars, audioVars>>
       \/ part = "sound" /\ AudioNext /\ UNCHANGED <<vars, campaignVars>>

DeviceSpec ==
    /\ DeviceInit
    /\ [][DeviceNext]_<<part, vars, campaignVars, audioVars>>
    /\ part = "sound" => AudioFairness

(* An activity that stays in the foreground gets its sound back.           *)
Revives == part = "sound" => SoundRevives
=============================================================================
