------------------------------- MODULE Laptop -------------------------------
(***************************************************************************)
(* The laptop with its session of voice, and the skills that have it call, *)
(* play and open, beside each other.                                       *)
(***************************************************************************)
EXTENDS Voice, Devices

LaptopInit == DailyInit /\ VoiceInit /\ DevicesInit

Speaking == About({"voice", "typed", "wake"}) /\ VoiceNext /\ UNCHANGED devicesVars
Reaching == /\ About({"contacts", "phone", "urls", "speech", "music", "playlists"})
            /\ DevicesNext /\ UNCHANGED voiceVars
LaptopNext == Speaking \/ Reaching

LaptopSpec == LaptopInit /\ [][LaptopNext]_<<daily, voiceVars, devicesVars>> /\ VoiceFair
=============================================================================
