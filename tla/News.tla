-------------------------------- MODULE News --------------------------------
(***************************************************************************)
(* What the outside world reports: the briefing and the breaking alarms    *)
(* (skills/world_news.py), the market board (skills/markets.py) and the    *)
(* weather line with its cache (skills/weather.py).                        *)
(*                                                                         *)
(* An article is one url.  The embedder puts articles of one story in one  *)
(* cluster; when it fails every article is a cluster of its own.           *)
(***************************************************************************)
EXTENDS Daily

CONSTANTS
  Articles,
  StoryOf,      \* the story an article is about; a story belongs to one category
  GroupOf,      \* the publisher's independence group
  Bar,          \* how many independent groups make a story breaking
  MaxPushes,    \* how many alarms of an article a behaviour follows
  MaxBeside     \* how many articles appear when two briefings are beside each other

ASSUME NewsAssumption ==
  /\ IsFiniteSet(Articles) /\ Articles = 1..Cardinality(Articles)
  /\ Bar \in Nat \ {0} /\ MaxPushes \in Nat /\ MaxBeside \in Nat
  /\ DOMAIN StoryOf = Articles /\ DOMAIN GroupOf = Articles

VARIABLES
  feed,         \* external: the articles of the last day
  gone,         \* external: the articles older than that
  delivered,    \* the table world_news_delivered
  briefing,     \* per caller of whats_up, the briefing being put together
  offered,      \* observed: articles of the day that a sent briefing was written from
  rung,         \* the table world_news_breaking_pushed
  cooling,      \* the youngest row of rung is younger than the cooldown
  hush,         \* observed: an alarm was sent within the cooldown
  alarms,       \* observed: how often an article was part of an alarm
  flood,        \* observed: an alarm was sent during a hush
  poll,         \* check_breaking
  sky,          \* the cached weather report
  said,         \* the report last given
  board         \* the market snapshot last sent

newsVars == <<feed, gone, delivered, briefing, offered, rung, cooling, hush, alarms,
              flood, poll, sky, said, board>>
articles == <<feed, gone>>
briefs   == <<delivered, briefing, offered>>
breaking == <<rung, cooling, hush, alarms, flood, poll>>
boards   == <<sky, said, board>>

Least(S) == CHOOSE x \in S : \A y \in S : x <= y
Stories  == {StoryOf[a] : a \in Articles}
Callers  == {"morning", "asked"}
NoBrief  == [pc |-> "idle", todo |-> {}, at |-> {}, show |-> {}]
NoPoll   == [pc |-> "idle", todo |-> {}, found |-> {}, top |-> {}]
NoBoard  == [quotes |-> {}, comment |-> FALSE, chart |-> "none"]

NewsInit ==
  /\ feed = {} /\ gone = {}
  /\ delivered = {} /\ briefing = [c \in Callers |-> NoBrief] /\ offered = {}
  /\ rung = {} /\ cooling = FALSE /\ hush = FALSE /\ flood = FALSE
  /\ alarms = [a \in Articles |-> 0] /\ poll = NoPoll
  /\ sky = "none" /\ said = "none" /\ board = NoBoard

(* _fetch_category and _cluster, one story standing for a category. *)
Fetched(s) == {a \in feed : StoryOf[a] = s}
Clusters(arts, embeds) ==
  IF arts = {} THEN {} ELSE IF embeds THEN {arts} ELSE {{a} : a \in arts}
Corroboration(cluster) == Cardinality({GroupOf[a] : a \in cluster})

-----------------------------------------------------------------------------
(* The briefing *)

(* Articles are numbered in the order in which the feeds report them, and age in it. *)
Appears(a) ==
  /\ Goes("news") /\ a = Cardinality(feed \cup gone) + 1
  /\ Goes("asking") => a <= MaxBeside
  /\ feed' = feed \cup {a} /\ UNCHANGED <<gone, briefs, breaking>>
Ages(a) ==
  /\ Goes("ageing") /\ a \in feed /\ a = Least(feed)
  /\ feed' = feed \ {a} /\ gone' = gone \cup {a} /\ offered' = offered \ {a}
  /\ UNCHANGED <<delivered, briefing, breaking>>

Brief(c, b) == briefing' = [briefing EXCEPT ![c] = b]

(* whats_up: rows older than the retention are retired first. *)
BriefStart(c) ==
  /\ Goes("briefing") /\ briefing[c].pc = "idle" /\ (c = "asked" => Goes("asking"))
  /\ Brief(c, [NoBrief EXCEPT !.pc = "read", !.todo = Stories])
  /\ delivered' = delivered \ gone
  /\ UNCHANGED <<articles, offered>>

(* A mutant of the next definition: only a story of which nothing was told is new. *)
BriefReadOnce(c) ==
  /\ briefing[c].pc = "read" /\ briefing[c].todo # {}
  /\ \E embeds, all \in BOOLEAN :
       LET s == Least(briefing[c].todo)
           clusters == Clusters(Fetched(s), embeds)
           fresh == {k \in clusters : all \/ \A a \in k : a \notin delivered} IN
       Brief(c, [briefing[c] EXCEPT !.pc = "record", !.todo = @ \ {s},
                                    !.at = UNION fresh, !.show = @ \cup UNION fresh])
  /\ UNCHANGED <<articles, delivered, offered>>

(* One category: what is new against the table, or everything when the table cannot *)
(* be read or the user asked for the full window.                                   *)
BriefRead(c) ==
  /\ briefing[c].pc = "read" /\ briefing[c].todo # {}
  /\ \E embeds, all \in BOOLEAN :
       LET s == Least(briefing[c].todo)
           clusters == Clusters(Fetched(s), embeds)
           fresh == {k \in clusters : all \/ \E a \in k : a \notin delivered} IN
       /\ Brief(c, [briefing[c] EXCEPT !.pc = "record", !.todo = @ \ {s},
                                       !.at = UNION fresh, !.show = @ \cup UNION fresh])
  /\ UNCHANGED <<articles, delivered, offered>>

(* _record_delivered: a failure is logged and the briefing goes on. *)
BriefRecord(c) ==
  /\ briefing[c].pc = "record"
  /\ delivered' = delivered \cup briefing[c].at
  /\ Brief(c, [briefing[c] EXCEPT !.pc = "read", !.at = {}])
  /\ UNCHANGED <<articles, offered>>
BriefRecordFails(c) ==
  /\ briefing[c].pc = "record" /\ Fault
  /\ Brief(c, [briefing[c] EXCEPT !.pc = "read", !.at = {}])
  /\ UNCHANGED <<articles, delivered, offered>>

BriefSend(c) ==
  /\ briefing[c].pc = "read" /\ briefing[c].todo = {}
  /\ offered' = offered \cup (briefing[c].show \cap feed)
  /\ Brief(c, NoBrief)
  /\ UNCHANGED <<articles, delivered>>

(* The process that runs it dies. *)
BriefDies(c) ==
  /\ briefing[c].pc # "idle" /\ Fault
  /\ Brief(c, NoBrief)
  /\ UNCHANGED <<articles, delivered, offered>>

Briefings ==
  /\ \E c \in Callers : BriefStart(c) \/ BriefRead(c) \/ BriefRecord(c) \/ BriefSend(c)
  /\ UNCHANGED <<breaking, boards, daily>>
BriefingFaults ==
  (\E c \in Callers : BriefRecordFails(c) \/ BriefDies(c)) /\ UNCHANGED <<breaking, boards>>

-----------------------------------------------------------------------------
(* Breaking news *)

(* Old rows are retired, then the cooldown; an unreadable clock counts as just fired. *)
PollStart ==
  /\ Goes("breaking") /\ poll.pc = "idle"
  /\ rung' = rung \ gone
  /\ \E readable \in BOOLEAN :
       poll' = IF cooling \/ ~readable THEN NoPoll
               ELSE [NoPoll EXCEPT !.pc = "scan", !.todo = Stories]
  /\ UNCHANGED <<cooling, hush, alarms, flood>>

Qualifying(s, embeds) == {k \in Clusters(Fetched(s), embeds) : Corroboration(k) >= Bar}
(* A mutant of the next definition: one new article makes a story new. *)
NovelInPart(clusters) == {k \in clusters : \E a \in k : a \notin rung}
Novel(clusters) == {k \in clusters : \A a \in k : a \notin rung}

(* A category whose feeds or rows cannot be read is left out. *)
PollScan ==
  /\ poll.pc = "scan" /\ poll.todo # {}
  /\ \E s \in {Least(poll.todo)}, embeds \in BOOLEAN :
       poll' = [poll EXCEPT !.todo = @ \ {s}, !.found = @ \cup Novel(Qualifying(s, embeds))]
  /\ UNCHANGED <<rung, cooling, hush, alarms, flood>>
PollMisses ==
  /\ poll.pc = "scan" /\ poll.todo # {} /\ Fault
  /\ poll' = [poll EXCEPT !.todo = @ \ {Least(poll.todo)}]
  /\ UNCHANGED <<rung, cooling, hush, alarms, flood>>

Better(k, l) == \/ Corroboration(k) > Corroboration(l)
                \/ (Corroboration(k) = Corroboration(l) /\ Cardinality(k) >= Cardinality(l))

(* Exactly one alarm, for the best corroborated story. *)
PollAlarm ==
  /\ poll.pc = "scan" /\ poll.todo = {}
  /\ IF poll.found = {}
     THEN poll' = NoPoll /\ UNCHANGED <<hush, alarms, flood>>
     ELSE \E top \in poll.found :
            /\ \A k \in poll.found : Better(top, k)
            /\ \A a \in top : alarms[a] < MaxPushes
            /\ poll' = [NoPoll EXCEPT !.pc = "record", !.top = top]
            /\ alarms' = [a \in Articles |-> IF a \in top THEN alarms[a] + 1 ELSE alarms[a]]
            /\ hush' = TRUE /\ flood' = (flood \/ hush)
  /\ UNCHANGED <<rung, cooling>>

PollRecord ==
  /\ poll.pc = "record"
  /\ rung' = rung \cup poll.top /\ cooling' = TRUE
  /\ poll' = NoPoll
  /\ UNCHANGED <<hush, alarms, flood>>
(* A failure to record is logged; so it is when the process dies before. *)
PollRecordFails ==
  /\ poll.pc = "record" /\ Fault
  /\ poll' = NoPoll
  /\ UNCHANGED <<rung, cooling, hush, alarms, flood>>

(* The cooldown runs out after the alarm; the row is a little younger. *)
HourPasses ==
  /\ Goes("breaking") /\ hush /\ poll.pc # "record"
  /\ hush' = FALSE /\ cooling' = FALSE
  /\ UNCHANGED <<rung, alarms, flood, poll>>

Polls == (PollStart \/ PollScan \/ PollAlarm \/ PollRecord)
         /\ UNCHANGED <<articles, briefs, boards, daily>>
PollFaults == (PollMisses \/ PollRecordFails) /\ UNCHANGED <<articles, briefs, boards>>
Hours == HourPasses /\ UNCHANGED <<articles, briefs, boards, daily>>
Articling == (\E a \in Articles : Appears(a) \/ Ages(a)) /\ UNCHANGED <<boards, daily>>

-----------------------------------------------------------------------------
(* Weather and markets *)

(* _fetch_report: a cached report younger than half an hour is given again. *)
Reports == IF sky = "fresh" THEN {"fresh"} ELSE {"fresh", "unreachable"}
WeatherAsk ==
  /\ Goes("boards")
  /\ \E report \in Reports :
       /\ said' = report
       /\ sky' = IF report = "fresh" THEN "fresh" ELSE sky
  /\ UNCHANGED board
WeatherAges ==
  /\ Goes("boards") /\ sky = "fresh"
  /\ sky' = "stale" /\ said' = "none" /\ UNCHANGED board

(* The provider of a category; crypto and forex have a substitute for when it fails, *)
(* commodities are fetched like stocks.                                             *)
Primary == [crypto |-> "coingecko", forex |-> "yahoo", stocks |-> "yahoo"]
Offers == {<<c, Primary[c]>> : c \in DOMAIN Primary}
          \cup {<<"crypto", "coinmarketcap">>, <<"forex", "alphavantage">>}

(* _fetch_all, from the offers that are answered. *)
QuotesOf(answers) ==
  {q \in answers : q[2] = Primary[q[1]] \/ <<q[1], Primary[q[1]]>> \notin answers}

(* The substitute for forex tells no change, so it never moves and is in no ticker. *)
Moving(quotes) == quotes \ {<<"forex", "alphavantage">>}

(* _correlate: a comment needs something that moves, news and a model that answers. *)
Comments(quotes) == IF Moving(quotes) = {} THEN {FALSE} ELSE BOOLEAN

Snapshot ==
  /\ Goes("boards")
  /\ \E answers \in SUBSET Offers :
       \E comment \in Comments(QuotesOf(answers)) :
         board' = [quotes |-> QuotesOf(answers), comment |-> comment, chart |-> "none"]
  /\ UNCHANGED <<sky, said>>

(* The chart of a window that has ticks: the one asked for or, but for crypto, a wider *)
(* one of days.                                                                        *)
ChartOf(category, ticking) ==
  IF "asked" \in ticking THEN "asked"
  ELSE IF category # "crypto" /\ "wider" \in ticking THEN "wider" ELSE "none"

(* display: the ticker of what moves, and the chart of an asset that is known. *)
ShowAsset ==
  /\ Goes("boards")
  /\ \E answers \in SUBSET Offers, category \in DOMAIN Primary \cup {"unknown"},
        ticking \in SUBSET {"asked", "wider"} :
       board' = [quotes |-> Moving(QuotesOf(answers)), comment |-> FALSE,
                 chart |-> IF category = "unknown" THEN "none" ELSE ChartOf(category, ticking)]
  /\ UNCHANGED <<sky, said>>

Boards == /\ WeatherAsk \/ WeatherAges \/ Snapshot \/ ShowAsset
          /\ UNCHANGED <<articles, briefs, breaking, daily>>

-----------------------------------------------------------------------------
NewsNext == Articling \/ Briefings \/ BriefingFaults \/ Polls \/ PollFaults \/ Hours
            \/ Boards

(* The scheduler starts the morning briefing every day, and what starts goes on. *)
BriefGoesOn(c) == (BriefRead(c) \/ BriefRecord(c) \/ BriefSend(c))
                  /\ UNCHANGED <<breaking, boards, daily>>
NewsFair ==
  /\ WF_<<daily, newsVars>>(BriefStart("morning") /\ UNCHANGED <<breaking, boards, daily>>)
  /\ \A c \in Callers : WF_<<daily, newsVars>>(BriefGoesOn(c))

-----------------------------------------------------------------------------
(* An article of the day is part of a briefing, however late a feed reports it      *)
(* and whatever of its story was told before, unless it ages first or something     *)
(* dies (whats_up compares urls with the table and records them before it sends).   *)
LateReportsAreTold ==
  \A a \in Articles : a \in feed /\ Goes("briefing") ~> (a \in offered \cup gone \/ faults > 0)

(* Alarms are rationed: none within an hour of another, and none for an article     *)
(* that was part of one, but for alarms that could not be recorded (check_breaking  *)
(* sends first and records then).                                                   *)
AlarmsAreRationed ==
  /\ flood => faults > 0
  /\ \A a \in Articles : alarms[a] <= 1 + faults
=============================================================================
