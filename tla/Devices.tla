------------------------------- MODULE Devices -------------------------------
(***************************************************************************)
(* The skills that reach the user's devices and account of music: the      *)
(* phone book (skills/contacts.py), calls (skills/phone.py) placed through *)
(* the laptop (client/adb_bridge.py), addresses (skills/web_open.py,       *)
(* skills/youtube.py), apps (skills/desktop.py), the voice the agent       *)
(* speaks with (skills/voice.py), and Spotify (skills/music.py,            *)
(* core/spotify.py).                                                       *)
(*                                                                         *)
(* A command that has no slow call inside it is one step.  What the laptop *)
(* is asked to do waits in asked until it is done.  Names and numbers are  *)
(* values; Matching says which names contain what was said.                *)
(***************************************************************************)
EXTENDS Daily, Integers

CONSTANTS
  Names,          \* names said, and names in the phone book
  Matching,       \* the names that contain a name said
  MaxPeople,      \* rows of the phone book
  MaxPreviews,    \* calls previewed in a behaviour
  Keys,           \* apps the server may name, with the words of each key
  Registry,       \* aliases of the voices that are configured
  MaxRate,        \* the fastest and, negated, the slowest rate, in steps
  Tracks,         \* tracks that exist
  Explicit,       \* those that are explicit
  MaxPlaylists

ASSUME DevicesAssumption ==
  /\ MaxPeople \in Nat /\ MaxPreviews \in Nat /\ MaxRate \in Nat /\ MaxPlaylists \in Nat
  /\ Explicit \subseteq Tracks /\ Matching \in [Names -> SUBSET Names] /\ \A k \in DOMAIN Keys : IsFiniteSet(Keys[k])

VARIABLES
  people,       \* the table contacts
  importing,    \* per process, the entry being imported
  pending,      \* kv: the call that waits for a confirmation
  previews,     \* observed: how many calls were previewed
  confirmed,    \* observed: the previews said yes to
  dialled,      \* observed: how often the number of each preview was sent to be dialled
  asked,        \* what the laptop is asked to do
  phone,        \* external: the state of the phone, and the devices attached
  urls,         \* the table url_favourites
  speech,       \* kv: the alias and rate of the voice, and whether it is muted
  token,        \* what the saved grant allows, and the token held in memory
  player,       \* external: Spotify's device
  playlists,    \* external: the playlists of the account
  building,     \* a playlist being made
  taste,        \* kv: whether there is a model of taste, and the month of the budget
  month         \* external: the month

devicesVars == <<people, importing, pending, previews, confirmed, dialled, asked, phone, urls,
                 speech, token, player, playlists, building, taste, month>>
book     == <<people, importing>>
calling  == <<pending, previews, confirmed, dialled>>
prefs    == <<urls, speech>>
spotify  == <<token, player, playlists, building, taste, month>>

Importers == {"kernel", "bot"}
Nothing   == [op |-> "none"]
NoEntry   == [pc |-> "idle", name |-> "none", number |-> "none"]
NoCall    == [no |-> 0, number |-> "none"]

DevicesInit ==
  /\ people = << >> /\ importing = [p \in Importers |-> NoEntry]
  /\ pending = NoCall /\ previews = 0 /\ confirmed = {} /\ dialled = [n \in 1..MaxPreviews |-> 0]
  /\ asked = Nothing /\ phone = [state |-> "idle", attached |-> 1]
  /\ urls = [n \in Names |-> "absent"]
  /\ speech = [alias |-> "unset", rate |-> 0, muted |-> FALSE]
  /\ token \in [saved : IF Goes("music") \/ Goes("playlists") THEN {"none", "old", "full"}
                        ELSE {"none"}, held : {"none"}]
  /\ player = [device |-> FALSE, playing |-> FALSE, volume |-> 1]
  /\ playlists = << >> /\ building = [pc |-> "idle", name |-> "none", tracks |-> {}]
  /\ taste = [built |-> FALSE, month |-> 0] /\ month = 1

-----------------------------------------------------------------------------
(* The phone book *)

(* normalize_phone: a number is its E.164 form, none, or refused. *)
Normal(raw) == raw # "garbled"
Person(name, number) == [name |-> name, number |-> number, live |-> TRUE]

AddContact(name, raw) ==
  /\ Goes("contacts") /\ Len(people) < MaxPeople
  /\ people' = IF Normal(raw) THEN Append(people, Person(name, raw)) ELSE people
  /\ UNCHANGED importing

(* The live people whose name contains what was said. *)
Found(said) == {i \in DOMAIN people : people[i].live /\ people[i].name \in Matching[said]}

(* retire: only the one person that matches. *)
RetireContact(said) ==
  /\ Goes("contacts") /\ Cardinality(Found(said)) = 1
  /\ people' = [i \in DOMAIN people |->
                  IF i \in Found(said) THEN [people[i] EXCEPT !.live = FALSE] ELSE people[i]]
  /\ UNCHANGED importing

(* An entry of a file, from parse_csv or parse_vcard: the nameless and the garbled are *)
(* left out, and so is what is on file, retired or not ...                              *)
OnFile(name, number) ==
  \E i \in DOMAIN people : people[i].name = name /\ people[i].number = number
ImportEntry(p, name, raw) ==
  /\ Goes("imports") /\ importing[p].pc = "idle" /\ Normal(raw) /\ ~OnFile(name, raw)
  /\ importing' = [importing EXCEPT ![p] = [pc |-> "new", name |-> name, number |-> raw]]
  /\ UNCHANGED people
(* ... and the rest is inserted, in a transaction of its own. *)
ImportInsert(p) ==
  /\ importing[p].pc = "new" /\ Len(people) < MaxPeople
  /\ people' = Append(people, Person(importing[p].name, importing[p].number))
  /\ importing' = [importing EXCEPT ![p] = NoEntry]

-----------------------------------------------------------------------------
(* Calls *)

(* call: one person, with a number, is previewed. *)
PreviewCall(said) ==
  /\ Goes("calls") /\ previews < MaxPreviews
  /\ Cardinality(Found(said)) = 1
  /\ \E i \in Found(said) :
       /\ people[i].number # "none"
       /\ previews' = previews + 1 /\ pending' = [no |-> previews + 1, number |-> people[i].number]
  /\ UNCHANGED <<confirmed, dialled, asked>>

(* A mutant of the next definition: the call stays pending once it is placed. *)
ContinueCallKeeps(yes) ==
  /\ Goes("calls") /\ pending # NoCall /\ asked = Nothing
  /\ IF yes THEN /\ asked' = [op |-> "call", number |-> pending.number]
                 /\ confirmed' = confirmed \cup {pending.no}
                 /\ dialled' = [dialled EXCEPT ![pending.no] = @ + 1] /\ UNCHANGED pending
     ELSE pending' = NoCall /\ UNCHANGED <<asked, confirmed, dialled>>
  /\ UNCHANGED previews

(* continue_call: whatever is not a yes cancels. *)
ContinueCall(yes) ==
  /\ Goes("calls") /\ pending # NoCall /\ asked = Nothing
  /\ pending' = NoCall
  /\ IF yes THEN /\ asked' = [op |-> "call", number |-> pending.number]
                 /\ confirmed' = confirmed \cup {pending.no}
                 /\ dialled' = [dialled EXCEPT ![pending.no] = @ + 1]
     ELSE UNCHANGED <<asked, confirmed, dialled>>
  /\ UNCHANGED previews

PickUp == Goes("phone") /\ asked = Nothing /\ asked' \in {[op |-> "answer"], [op |-> "hangup"]}
          /\ UNCHANGED calling

(* AdbBridge: exactly one device that is authorised, and no force. *)
OneDevice == phone.attached = 1
Dials(number)  == phone' = IF OneDevice THEN [phone EXCEPT !.state = "offhook"] ELSE phone
Answers == phone' = IF OneDevice /\ phone.state = "ringing"
                    THEN [phone EXCEPT !.state = "offhook"] ELSE phone
HangsUp == phone' = IF OneDevice THEN [phone EXCEPT !.state = "idle"] ELSE phone

(* The laptop does what it is asked; an address or an app is opened there. *)
DoAsked ==
  /\ asked # Nothing /\ asked' = Nothing
  /\ CASE asked.op = "call"   -> Dials(asked.number)
       [] asked.op = "answer" -> Answers
       [] asked.op = "hangup" -> HangsUp
       [] OTHER -> UNCHANGED phone
PhoneMoves ==
  /\ Goes("phone")
  /\ \/ phone.state = "idle" /\ phone' = [phone EXCEPT !.state = "ringing"]
     \/ phone.state # "idle" /\ phone' = [phone EXCEPT !.state = "idle"]
     \/ \E n \in 0..2 : n # phone.attached /\ phone' = [phone EXCEPT !.attached = n]
  /\ UNCHANGED asked

-----------------------------------------------------------------------------
(* Addresses and apps *)

(* _client_actions: only what an operation needs passes, and only addresses of the web. *)
Ask(action) == asked = Nothing /\ asked' = action
ValidUrl(url) == url \in {"http", "https"}

AddUrl(name, url) ==
  /\ Goes("urls") /\ urls' = IF ValidUrl(url) THEN [urls EXCEPT ![name] = url] ELSE urls
  /\ UNCHANGED asked
RetireUrl(name) ==
  /\ Goes("urls") /\ urls[name] \notin {"absent", "retired"}
  /\ urls' = [urls EXCEPT ![name] = "retired"] /\ UNCHANGED asked
OpenUrl(name) ==
  /\ Goes("urls") /\ ValidUrl(urls[name]) /\ Ask([op |-> "open_url", url |-> urls[name]])
  /\ UNCHANGED urls
(* YouTube: the video found, or the page of the search. *)
PlayVideo ==
  /\ Goes("urls") /\ \E url \in {"watch", "results"} : Ask([op |-> "open_url", url |-> url])
  /\ UNCHANGED urls

(* DesktopSkill._resolve: the key itself, or the longest key all of whose words were   *)
(* said, when there is one such.                                                        *)
Resolve(words) ==
  LET said  == {k \in DOMAIN Keys : Keys[k] \subseteq words}
      best  == {k \in said : \A j \in said : Cardinality(Keys[j]) <= Cardinality(Keys[k])} IN
  IF \E k \in DOMAIN Keys : Keys[k] = words THEN {k \in DOMAIN Keys : Keys[k] = words}
  ELSE IF Cardinality(best) = 1 THEN best ELSE {}
(* A standing rule may forbid to close an app. *)
Dispatch(op, words, forbidden) ==
  /\ Goes("apps")
  /\ \E k \in Resolve(words) : ~(op = "close" /\ k \in forbidden) /\ Ask([op |-> op, app |-> k])
  /\ UNCHANGED urls

-----------------------------------------------------------------------------
(* The voice *)

(* current: an alias that is no longer configured falls back. *)
CurrentVoice == IF speech.alias \in Registry THEN speech.alias ELSE "default"
SetVoice(alias) ==
  /\ Goes("speech") /\ alias \in Registry /\ speech' = [speech EXCEPT !.alias = alias]
SetRate(step) ==
  /\ Goes("speech")
  /\ LET rate == IF step = "faster" THEN speech.rate + 1 ELSE speech.rate - 1 IN
     speech' = [speech EXCEPT !.rate = IF rate > MaxRate THEN MaxRate
                                       ELSE IF rate + MaxRate < 0 THEN 0 - MaxRate ELSE rate]
SetMuted(muted) == Goes("speech") /\ speech' = [speech EXCEPT !.muted = muted]

-----------------------------------------------------------------------------
(* Spotify *)

(* _token: the token in memory until it expires, then one of what the saved grant allows. *)
Grant == IF token.held # "none" THEN token.held ELSE token.saved
Calls(grants) == Grant \in grants /\ token' = [token EXCEPT !.held = Grant]
TokenExpires ==
  /\ token.held # "none" /\ token' = [token EXCEPT !.held = "none"]
  /\ UNCHANGED <<player, playlists, building, taste, month, asked>>
(* manage.py music connect: a grant with every scope there is now. *)
Connect ==
  /\ Goes("playlists") /\ token.saved # "full" /\ token' = [token EXCEPT !.saved = "full"]
  /\ UNCHANGED <<player, playlists, building, taste, month, asked>>

(* _simple: play, pause, next, previous and the volume, between none and all of it ... *)
Transport(playing, volume) ==
  /\ Goes("music") /\ player.device /\ Calls({"old", "full"})
  /\ player' = [player EXCEPT !.playing = playing,
                              !.volume = IF volume < 0 THEN 0 ELSE IF volume > 2 THEN 2 ELSE volume]
  /\ UNCHANGED <<playlists, building, taste, month, asked>>
(* ... or, without a device, the laptop is asked to open the app. *)
NoDevice ==
  /\ Goes("music") /\ ~player.device /\ Calls({"old", "full"})
  /\ Ask([op |-> "open", app |-> "spotify"])
  /\ UNCHANGED <<player, playlists, building, taste, month>>
DeviceMoves ==
  /\ Goes("music") /\ player' = [player EXCEPT !.device = ~@, !.playing = FALSE]
  /\ UNCHANGED <<token, playlists, building, taste, month, asked>>

(* taste: every endpoint is read before the model is replaced. *)
Taste ==
  /\ Goes("music") /\ Calls({"old", "full"}) /\ taste' = [taste EXCEPT !.built = TRUE]
  /\ UNCHANGED <<player, playlists, building, month, asked>>
(* _budget_state: the month that is begun has nothing spent. *)
Budget ==
  /\ Goes("music") /\ taste' = [taste EXCEPT !.month = month]
  /\ UNCHANGED <<token, player, playlists, building, month, asked>>
MonthPasses ==
  /\ Goes("music") /\ month < 2 /\ month' = month + 1
  /\ UNCHANGED <<token, player, playlists, building, taste, asked>>

(* rule_filters: a rule against what is explicit, for the whole day or before an hour. *)
Allowed(rule, early) ==
  IF rule = "always" \/ (rule = "mornings" /\ early) THEN Tracks \ Explicit ELSE Tracks
(* _candidates and _resolve: the model's ideas that are real tracks and allowed. *)
Resolved(ideas, rule, early) == ideas \cap Allowed(rule, early)
(* playlist, until something is written. *)
PlaylistIdeas(name, ideas, rule, early) ==
  /\ Goes("playlists") /\ building.pc = "idle" /\ Resolved(ideas, rule, early) # {}
  /\ Calls({"old", "full"})
  /\ building' = [pc |-> "resolved", name |-> name, tracks |-> Resolved(ideas, rule, early)]
  /\ UNCHANGED <<player, playlists, taste, month, asked>>
(* It is made empty, which an old grant may not ... *)
PlaylistCreate ==
  /\ building.pc = "resolved" /\ Len(playlists) < MaxPlaylists
  /\ token' = [token EXCEPT !.held = Grant]
  /\ IF Grant = "full"
     THEN /\ playlists' = Append(playlists, [name |-> building.name, tracks |-> {}])
          /\ building' = [building EXCEPT !.pc = "made"]
     ELSE building' = [building EXCEPT !.pc = "idle"] /\ UNCHANGED playlists
  /\ UNCHANGED <<player, taste, month, asked>>
(* ... then filled, or left empty. *)
PlaylistFill ==
  /\ building.pc = "made"
  /\ \E filled \in BOOLEAN :
       playlists' = [playlists EXCEPT ![Len(playlists)].tracks = IF filled THEN building.tracks ELSE @]
  /\ building' = [pc |-> "idle", name |-> "none", tracks |-> {}]
  /\ UNCHANGED <<token, player, taste, month, asked>>

(* playlist_remove: from the one playlist of that name, or from the first that has it. *)
Named(name) == {i \in DOMAIN playlists : playlists[i].name \in Matching[name]}
First(hits) == CHOOSE i \in hits : \A j \in hits : i <= j
RemoveTrack(track, among) ==
  LET hits == {i \in among : track \in playlists[i].tracks} IN
  /\ building.pc = "idle" /\ hits # {} /\ Calls({"full"})
  /\ playlists' = [playlists EXCEPT ![First(hits)].tracks = @ \ {track}]
  /\ UNCHANGED <<player, building, taste, month, asked>>
PlaylistRemove(track, name) ==
  /\ Goes("playlists") /\ Cardinality(Named(name)) = 1 /\ RemoveTrack(track, Named(name))
PlaylistRemoveAnywhere(track) == Goes("playlists") /\ RemoveTrack(track, DOMAIN playlists)

-----------------------------------------------------------------------------
Numbers == {"p", "none", "garbled"}

Booking ==
  /\ \/ \E n \in Names, raw \in Numbers :
          AddContact(n, raw) \/ \E p \in Importers : ImportEntry(p, n, raw)
     \/ \E n \in Names : RetireContact(n)
     \/ \E p \in Importers : ImportInsert(p)
  /\ UNCHANGED <<daily, calling, asked, phone, prefs, spotify>>
Calling ==
  /\ \/ PickUp \/ \E n \in Names : PreviewCall(n)
     \/ \E yes \in BOOLEAN : ContinueCall(yes)
  /\ UNCHANGED <<daily, book, phone, prefs, spotify>>
Doing ==
  /\ DoAsked \/ PhoneMoves
  /\ UNCHANGED <<daily, book, calling, prefs, spotify>>
Opening ==
  /\ \/ \E n \in Names : RetireUrl(n) \/ OpenUrl(n) \/ \E url \in {"https", "file"} : AddUrl(n, url)
     \/ PlayVideo
     \/ \E op \in {"open", "close", "focus"}, k \in DOMAIN Keys : \E heard \in SUBSET {"please"} :
          Dispatch(op, Keys[k] \cup heard, {"code"})
  /\ UNCHANGED <<daily, book, calling, phone, speech, spotify>>
Speech ==
  /\ \/ \E alias \in Registry \cup {"cloned"} : SetVoice(alias)
     \/ \E step \in {"faster", "slower"} : SetRate(step)
     \/ \E muted \in BOOLEAN : SetMuted(muted)
  /\ UNCHANGED <<daily, book, calling, asked, phone, urls, spotify>>
Music ==
  /\ \/ TokenExpires \/ Connect \/ NoDevice \/ DeviceMoves \/ Taste \/ Budget \/ MonthPasses
     \/ PlaylistCreate \/ PlaylistFill
     \/ \E playing \in BOOLEAN, volume \in (0 - 1)..3 : Transport(playing, volume)
     \/ \E n \in Names, ideas \in SUBSET Tracks :
          \E rule \in {"none", "always", "mornings"}, early \in BOOLEAN :
            PlaylistIdeas(n, ideas, rule, early)
     \/ \E t \in Tracks : PlaylistRemoveAnywhere(t) \/ \E n \in Names : PlaylistRemove(t, n)
  /\ UNCHANGED <<daily, book, calling, phone, prefs>>

DevicesNext == Booking \/ Calling \/ Doing \/ Opening \/ Speech \/ Music

-----------------------------------------------------------------------------
(* A number is sent to be dialled only for a preview that was said yes to, and once   *)
(* for each, whatever is said after it, of a phone book that changes meanwhile        *)
(* (phone.py).                                                                        *)
CallsAreConfirmed ==
  \A n \in DOMAIN dialled : dialled[n] = (IF n \in confirmed THEN 1 ELSE 0)
=============================================================================
