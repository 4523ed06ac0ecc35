-------------------------------- MODULE Voice --------------------------------
(***************************************************************************)
(* The laptop: the session of its window (client/assistant_core.py, with   *)
(* the audio of agent_window.py, hud_window.py and audio_io.py), the       *)
(* speaker, the wake word loop and the link to the server                  *)
(* (client/voice_client.py), the apps it may open (client/apps.py), and    *)
(* the bus through which the server pushes to sockets (core/stage.py).     *)
(*                                                                         *)
(* The window's button, the listening threads, one thread per turn and the *)
(* event loop of the speaker interleave; only what is done under the lock  *)
(* of the session is one step.  Scope "wake" is the loop of the wake word, *)
(* which has turns and a speaker but no session.                           *)
(***************************************************************************)
EXTENDS Daily

CONSTANTS
  MaxLoops,     \* listening threads started in a behaviour
  MaxTurns,     \* turns of a behaviour
  MaxCasts,     \* directives the bus broadcasts in a behaviour
  Apps,         \* apps the server may name
  AllowedApps   \* those of apps.yaml

ASSUME VoiceAssumption ==
  MaxLoops \in Nat /\ MaxTurns \in Nat /\ MaxCasts \in Nat /\ AllowedApps \subseteq Apps

VARIABLES
  device,       \* whether the stream of the microphone is open
  stopping,     \* _stop: the listening threads are to end
  state,        \* what the window displays
  wanted,       \* observed: what the user asked of the microphone last
  loops,        \* where each listening thread is
  turns,        \* the turns and the threads that answer them
  current,      \* _response_generation: the turn that may answer, 0 when none may
  voice,        \* the generation of the speaker: whose speech was begun last, or 0
  playing,      \* the turn whose speech is heard, or 0
  opened,       \* external: apps that run on the laptop
  casting,      \* sockets a directive is still to be sent to
  casts         \* broadcasts so far

voiceVars == <<device, stopping, state, wanted, loops, turns, current, voice, playing,
               opened, casting, casts>>
mic  == <<device, stopping, wanted, loops>>
bus  == <<casting, casts>>

Ops  == {"open", "close", "focus"}

VoiceInit ==
  /\ device = FALSE /\ stopping = FALSE /\ state = "off" /\ wanted = "off"
  /\ loops = << >> /\ turns = << >> /\ current = 0 /\ voice = 0 /\ playing = 0
  /\ opened = {} /\ casting = {} /\ casts = 0

-----------------------------------------------------------------------------
(* The microphone *)

(* Speaker.stop, through _stop_speaking. *)
Silence == voice' = 0 /\ playing' = 0

(* mic_on_, from the button or the wake word of the HUD: a new thread listens, whatever *)
(* became of the one before.                                                            *)
MicOn ==
  /\ Goes("voice") /\ wanted # "quit" /\ ~device /\ Len(loops) < MaxLoops
  /\ wanted' = "on" /\ stopping' = FALSE /\ device' = TRUE /\ state' = "listening"
  /\ loops' = Append(loops, "wait")
  /\ UNCHANGED <<turns, current, voice, playing>>

(* The device cannot be opened: nothing but _stop has changed. *)
MicOnFails ==
  /\ Goes("voice") /\ wanted # "quit" /\ ~device /\ Len(loops) < MaxLoops
  /\ Fault /\ stopping' = FALSE
  /\ UNCHANGED <<device, state, wanted, loops, turns, current, voice, playing>>

(* A mutant of the next definition: the listening thread closes the device, when it ends. *)
MicOffLazy ==
  /\ Goes("voice") /\ wanted = "on"
  /\ wanted' = "off" /\ stopping' = TRUE /\ state' = "off"
  /\ UNCHANGED <<device, loops, turns, current, voice, playing>>

(* mic_off, from the button or from closing the window. *)
MicOff ==
  /\ Goes("voice") /\ wanted = "on"
  /\ wanted' = "off" /\ stopping' = TRUE /\ device' = FALSE /\ state' = "off"
  /\ UNCHANGED <<loops, turns, current, voice, playing>>

(* shutdown *)
Quit ==
  /\ Goes("voice") /\ wanted # "quit"
  /\ wanted' = "quit" /\ stopping' = TRUE /\ device' = FALSE /\ state' = "off"
  /\ UNCHANGED <<loops, turns, current, voice, playing>>
QuitEnds ==
  /\ Goes("voice") /\ wanted = "quit" /\ (current # 0 \/ voice # 0 \/ playing # 0)
  /\ current' = 0 /\ Silence
  /\ UNCHANGED <<mic, state, turns>>

-----------------------------------------------------------------------------
(* A listening thread *)

(* barge_in: speech is heard while an answer is awaited or spoken. *)
BargeIn(l) ==
  /\ loops[l] = "wait" /\ device /\ state \in {"thinking", "speaking"}
  /\ state' = "recording" /\ current' = 0
  /\ IF state = "speaking" THEN Silence ELSE UNCHANGED <<voice, playing>>
  /\ UNCHANGED <<mic, turns>>

(* The recorder returns a whole utterance. *)
Hears(l) ==
  /\ loops[l] = "wait" /\ device
  /\ loops' = [loops EXCEPT ![l] = "heard"]
  /\ UNCHANGED <<device, stopping, state, wanted, turns, current, voice, playing>>

(* It returns nothing, or raises: the thread goes on unless it is told to stop. *)
HearsNothing(l) ==
  /\ loops[l] = "wait" /\ stopping
  /\ loops' = [loops EXCEPT ![l] = "ending"]
  /\ UNCHANGED <<device, stopping, state, wanted, turns, current, voice, playing>>
HearsGlitch(l) ==
  /\ loops[l] = "wait" /\ Fault
  /\ loops' = [loops EXCEPT ![l] = "ending"]
  /\ UNCHANGED <<device, stopping, state, wanted, turns, current, voice, playing>>

(* _loop looks at _stop, then _handle transcribes. *)
Handle(l) ==
  /\ loops[l] = "heard"
  /\ IF stopping THEN loops' = [loops EXCEPT ![l] = "ending"] /\ UNCHANGED state
     ELSE loops' = [loops EXCEPT ![l] = "transcribing"] /\ state' = "recording"
  /\ UNCHANGED <<device, stopping, wanted, turns, current, voice, playing>>

(* Nothing intelligible, or the transcription fails. *)
NotUnderstood(l) ==
  /\ loops[l] = "transcribing"
  /\ loops' = [loops EXCEPT ![l] = "wait"] /\ state' = "listening"
  /\ UNCHANGED <<device, stopping, wanted, turns, current, voice, playing>>

(* Under the lock, the end of _loop: the device is closed whoever has opened it. *)
LoopEnds(l) ==
  /\ loops[l] = "ending"
  /\ loops' = [loops EXCEPT ![l] = "done"] /\ device' = FALSE /\ state' = "off"
  /\ UNCHANGED <<stopping, wanted, turns, current, voice, playing>>

-----------------------------------------------------------------------------
(* A turn *)

Turn(where, spoken) == [pc |-> where, mic |-> spoken, got |-> "none", to |-> "off"]
Moves(t, to) == turns' = [turns EXCEPT ![t].pc = to]

(* submit: the newest turn wins over the one in flight. *)
Submit(spoken) ==
  /\ Len(turns) < MaxTurns
  /\ turns' = Append(turns, Turn("open", spoken)) /\ current' = Len(turns) + 1
  /\ IF state = "speaking" THEN Silence ELSE UNCHANGED <<voice, playing>>
  /\ state' = "thinking"
Said(l) ==
  /\ loops[l] = "transcribing" /\ Submit(TRUE)
  /\ loops' = [loops EXCEPT ![l] = "wait"]
  /\ UNCHANGED <<device, stopping, wanted>>
Typed == (Goes("voice") \/ Goes("typed")) /\ wanted # "quit" /\ Submit(FALSE) /\ UNCHANGED mic

(* send_to_agent: a socket for this turn, the text, and the first message that comes. *)
Receive(t) ==
  /\ turns[t].pc = "open"
  /\ turns' = [turns EXCEPT ![t].pc = IF current = t \/ Goes("wake") THEN "acting" ELSE "done",
                            ![t].got = IF @ = "none" THEN "reply" ELSE @]
  /\ UNCHANGED <<mic, state, current, voice, playing, opened, bus>>

(* The end of a turn, if it is still the newest: its text appears, and whether the    *)
(* microphone is on is read, for the display to follow.                               *)
ReadMic(t) ==
  turns' = IF current = t /\ ~Goes("wake")
           THEN [turns EXCEPT ![t].pc = "closing", ![t].to = IF device THEN "listening" ELSE "off"]
           ELSE [turns EXCEPT ![t].pc = "done"]

(* A mutant of the next definition: nothing says that the turn is over. *)
SendFailsMute(t) ==
  /\ turns[t].pc = "open"
  /\ Moves(t, "done")
  /\ UNCHANGED <<mic, state, current, voice, playing, opened, bus>>

(* No ticket, no server, or no answer in time. *)
SendFails(t) ==
  /\ turns[t].pc = "open" /\ ReadMic(t)
  /\ UNCHANGED <<mic, state, current, voice, playing, opened, bus>>

(* AppController.execute: an app that apps.yaml does not name is refused. *)
Execute(op, app) ==
  opened' = IF op \notin Ops \/ app \notin AllowedApps THEN opened
            ELSE IF op = "close" THEN opened \ {app} ELSE opened \cup {app}

(* The apps first; a directive names none and says nothing. *)
Act(t) ==
  /\ turns[t].pc = "acting"
  /\ IF turns[t].got = "reply" /\ Goes("apps")
     THEN \E op \in Ops \cup {"run"}, app \in Apps : Execute(op, app)
     ELSE UNCHANGED opened
  /\ IF turns[t].got = "reply" /\ turns[t].mic
     THEN Moves(t, "speaking") /\ state' = (IF Goes("wake") THEN state ELSE "speaking")
     ELSE Moves(t, "said") /\ UNCHANGED state
  /\ UNCHANGED <<mic, current, voice, playing, bus>>

(* Speaker.speak: the speech is synthesised and, unless another began, played. *)
SpeakStart(t) ==
  /\ turns[t].pc = "speaking" /\ voice' = t /\ Moves(t, "synth")
  /\ UNCHANGED <<mic, state, current, playing, opened, bus>>
Play(t) ==
  /\ turns[t].pc = "synth"
  /\ IF voice = t THEN playing' = t /\ Moves(t, "playing")
     ELSE Moves(t, "said") /\ UNCHANGED playing
  /\ UNCHANGED <<mic, state, current, voice, opened, bus>>
PlayEnds(t) ==
  /\ turns[t].pc = "playing"
  /\ playing' = (IF playing = t THEN 0 ELSE playing) /\ Moves(t, "said")
  /\ UNCHANGED <<mic, state, current, voice, opened, bus>>

Finish(t) ==
  /\ turns[t].pc = "said" /\ ReadMic(t)
  /\ UNCHANGED <<mic, state, current, voice, playing, opened, bus>>
Display(t) ==
  /\ turns[t].pc = "closing" /\ Moves(t, "done") /\ state' = turns[t].to
  /\ UNCHANGED <<mic, current, voice, playing, opened, bus>>

-----------------------------------------------------------------------------
(* The wake word *)

(* The speech is cut, the turn in flight cancelled, and a new one recorded. *)
Wake ==
  /\ Goes("wake") /\ Len(turns) < MaxTurns /\ Silence
  /\ turns' = Append([t \in DOMAIN turns |-> [turns[t] EXCEPT !.pc = "done"]], Turn("heard", TRUE))
  /\ current' = Len(turns) + 1
  /\ UNCHANGED <<mic, state>>
(* handle_utterance: nothing, the word "stop", or something to send. *)
Transcribe(t) ==
  /\ turns[t].pc = "heard"
  /\ \/ Moves(t, "done") /\ UNCHANGED <<voice, playing>>
     \/ Moves(t, "done") /\ Silence
     \/ Moves(t, "open") /\ UNCHANGED <<voice, playing>>
  /\ UNCHANGED <<mic, state, current>>

-----------------------------------------------------------------------------
(* The bus *)

(* push and the first step of _broadcast: every registered socket, a turn's as well. *)
Push ==
  /\ Goes("stage") /\ casts < MaxCasts /\ casts' = casts + 1
  /\ casting' = casting \cup {t \in DOMAIN turns : turns[t].pc = "open"}
  /\ UNCHANGED turns

(* One send; a socket that is gone is dropped. *)
CastOne(t) ==
  /\ t \in casting /\ casting' = casting \ {t}
  /\ turns' = IF turns[t].pc = "open" /\ turns[t].got = "none"
              THEN [turns EXCEPT ![t].got = "directive"] ELSE turns
  /\ UNCHANGED casts

-----------------------------------------------------------------------------
Listening ==
  /\ \/ MicOn \/ MicOff \/ Quit \/ QuitEnds \/ Typed \/ Wake
     \/ \E l \in DOMAIN loops : BargeIn(l) \/ Hears(l) \/ HearsNothing(l) \/ Handle(l)
                                \/ NotUnderstood(l) \/ Said(l) \/ LoopEnds(l)
     \/ \E t \in DOMAIN turns : Transcribe(t)
  /\ UNCHANGED <<daily, opened, bus>>
Glitches == (MicOnFails \/ \E l \in DOMAIN loops : HearsGlitch(l)) /\ UNCHANGED <<opened, bus>>
Answering ==
  /\ \E t \in DOMAIN turns : \/ Receive(t) \/ SendFails(t)
                             \/ Act(t) \/ SpeakStart(t) \/ Play(t) \/ PlayEnds(t)
                             \/ Finish(t) \/ Display(t)
  /\ UNCHANGED daily
Casting ==
  /\ Push \/ \E t \in casting : CastOne(t)
  /\ UNCHANGED <<daily, mic, state, current, voice, playing, opened>>

VoiceNext == Listening \/ Glitches \/ Answering \/ Casting

(* The threads of the turns run; a request or a speech that never ends times out. *)
VoiceFair == WF_<<daily, voiceVars>>(Answering)

-----------------------------------------------------------------------------
(* The microphone is open only while the last thing the user asked is that it be,     *)
(* though threads of earlier sessions still run (mic_off, shutdown of                 *)
(* assistant_core.py).                                                                *)
MicOnlyWithConsent == device => wanted = "on"

(* The window does not go on thinking for ever: the turn that made it think, or one   *)
(* that took its place, ends it, the answer lost or overtaken (_respond).             *)
DisplayLeavesThinking == (state = "thinking") ~> (state # "thinking" \/ wanted = "quit")
=============================================================================
