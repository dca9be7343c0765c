---------------------------- MODULE ConnectorSync ----------------------------
(***************************************************************************)
(* Reading from an external account into a Conversation Space              *)
(* (services/product/conversation_integrations.py, sync_connection, and    *)
(* the read adapters of GitHub, Google Calendar and Google Drive).         *)
(*                                                                         *)
(* A sync reads what changed since the cursor of its connection, stores    *)
(* every object it read as a snapshot of its Space in a transaction of its *)
(* own, and saves the new cursor last; no lock is held.  Meanwhile the     *)
(* users of the provider go on editing.                                    *)
(*                                                                         *)
(* The provider is a log of edits.  The place of an edit in the log is the *)
(* version it made; two edits may carry the same time, a whole second.     *)
(* Requests, titles and texts are left out: a row is the version its       *)
(* metadata was taken from and the version its text was taken from.        *)
(***************************************************************************)
EXTENDS Integers, Sequences, FiniteSets

CONSTANTS
    SyncThreads, \* threads that serve sync requests
    Spaces,      \* Conversation Spaces
    Targets,     \* repositories, calendars or folders of the account
    Objects,     \* issues, events or files: their target and a number in it
    Pulls,       \* of these, what GitHub lists among issues: pull requests
    Limit,       \* most objects one sync may store
    PerPage,     \* rows of one page of GitHub's list
    MaxPages,    \* pages one sync may ask GitHub for
    MaxEdits,    \* bound: edits at the provider
    MaxSyncs,    \* bound: syncs begun
    Risks        \* the sets of things a behaviour may be exposed to

\* "overlap": syncs run concurrently; "places": one connection serves several
\* Spaces or repositories; "shift": a listed object is edited between two pages.
ASSUME SyncAssumption ==
    /\ Risks \subseteq SUBSET {"overlap", "places", "shift"}
    /\ {Limit, PerPage, MaxPages} \subseteq Nat \ {0}
    /\ {MaxEdits, MaxSyncs} \subseteq Nat
    /\ Spaces # {} /\ Targets # {}
    /\ Objects \subseteq Targets \X Nat /\ Pulls \subseteq Objects

Providers == {"GITHUB", "GOOGLE_CALENDAR", "GOOGLE_DRIVE"}
Usual(places) == CHOOSE place \in places : TRUE

VARIABLES
    provider,    \* provider_id of the connection
    risks,
    edits,       \* history of the account: what was edited or deleted, and when
    expired,     \* tokens up to this one are no longer valid
    status,      \* of the connection
    cursor,      \* sync_cursors of its capability: the target and the mark
    rows,        \* conversation_connector_snapshot, in the order of created_at
    sync,        \* of each thread: where it is and what it has read
    begun

syncVars == <<provider, risks, edits, expired, status, cursor, rows, sync, begun>>
accountVars == <<provider, risks, edits, expired>>

\* from: the mark the provider is asked with; read: rows not stored yet; count,
\* newest: how many objects and up to what mark; listed: files still to be read;
\* cut: stopped by a limit; seen: the edits made before it began.
NoSync == [at |-> "idle", space |-> Usual(Spaces), target |-> Usual(Targets), from |-> 0, page |-> 1,
           read |-> {}, listed |-> {}, count |-> 0, newest |-> 0, cut |-> FALSE, seen |-> 0]

SyncInit ==
    /\ provider \in Providers /\ risks \in Risks
    /\ edits = <<>> /\ expired = 0
    /\ status = "CONNECTED" /\ cursor = [target |-> Usual(Targets), mark |-> 0]
    /\ rows = <<>> /\ begun = 0
    /\ sync = [s \in SyncThreads |-> NoSync]

-----------------------------------------------------------------------------
(* The account.                                                            *)

EditsOf(o) == {v \in DOMAIN edits : edits[v].of = o}

\* The version an object has now, 0 before it is created.
Version(o) == IF EditsOf(o) = {} THEN 0 ELSE CHOOSE v \in EditsOf(o) : \A w \in EditsOf(o) : w <= v
Live(o) == Version(o) # 0 /\ ~edits[Version(o)].gone
Current(target) == {Version(o) : o \in {o \in Objects : o[1] = target /\ Version(o) # 0}}
LiveIn(target) == {v \in Current(target) : ~edits[v].gone}

\* The issues a page list of sync s has: open, updated at or after its mark, oldest first.
Issues(s) == {v \in LiveIn(sync[s].target) : edits[v].at >= sync[s].from}

\* An edit, creation or deletion of one object, in the same second or well after it.
Edit(o, gone) ==
    /\ Len(edits) < MaxEdits /\ (gone => Live(o))
    /\ "shift" \in risks \/ \A s \in SyncThreads :
           sync[s].at = "issues" /\ sync[s].page > 1 => Version(o) \notin Issues(s)
    /\ \E tick \in {0, 2} :
          LET now == IF edits = <<>> THEN 2 ELSE edits[Len(edits)].at + tick
          IN edits' = Append(edits, [of |-> o, at |-> now, gone |-> gone])
    /\ UNCHANGED <<provider, risks, expired, status, cursor, rows, sync, begun>>

\* Google invalidates the sync tokens it has given out.
Expire ==
    /\ provider = "GOOGLE_CALENDAR" /\ cursor.mark > expired
    /\ expired' = cursor.mark
    /\ UNCHANGED <<provider, risks, edits, status, cursor, rows, sync, begun>>

-----------------------------------------------------------------------------
(* A sync request.                                                         *)

Within(s, where) == sync[s].at = where /\ UNCHANGED <<accountVars, begun>>
Goes(s, what) == sync' = [sync EXCEPT ![s] = what]

\* Mutant: the token of one calendar is used for every calendar.
MarkForAny(target) == IF provider = "GOOGLE_DRIVE" THEN 0 ELSE cursor.mark

\* The mark the adapter asks with: Calendar's only for the same calendar, Drive has none.
MarkFor(target) ==
    CASE provider = "GITHUB" -> cursor.mark
      [] provider = "GOOGLE_CALENDAR" -> IF cursor.target = target THEN cursor.mark ELSE 0
      [] provider = "GOOGLE_DRIVE" -> 0

FirstStep == CASE provider = "GITHUB" -> "issues"
               [] provider = "GOOGLE_CALENDAR" -> "events"
               [] provider = "GOOGLE_DRIVE" -> "folder"

\* sync_connection up to the first call of the adapter.
SyncConnection(s, space, target) ==
    /\ sync[s].at = "idle" /\ status = "CONNECTED" /\ begun < MaxSyncs
    /\ "overlap" \in risks \/ \A other \in SyncThreads : sync[other].at = "idle"
    /\ \/ "places" \in risks
       \/ space = Usual(Spaces) /\ (provider = "GITHUB" => target = Usual(Targets))
    /\ Goes(s, [NoSync EXCEPT !.at = FirstStep, !.space = space, !.target = target,
                              !.from = MarkFor(target), !.seen = Len(edits)])
    /\ begun' = begun + 1
    /\ UNCHANGED <<accountVars, status, cursor, rows>>

\* Any request may fail.  A refusal of the target leaves the connection as it was when
\* the sync began; another error, or a set of changes above the limit, makes it ERROR.
Fails(s, now) == Goes(s, NoSync) /\ status' = now /\ UNCHANGED <<cursor, rows>>

RequestFails(s) ==
    /\ \E step \in {"issues", "events", "folder", "files"} : Within(s, step)
    /\ \E now \in {"CONNECTED", "ERROR"} : Fails(s, now)

\* GitHub: one page of the list of issues and pull requests.
Rank(v, S) == Cardinality({w \in S : w <= v})

\* The rows of page p, and of these the ones handled before the limit is reached.
Page(s) ==
    LET p == sync[s].page
    IN {v \in Issues(s) : Rank(v, Issues(s)) \in (p - 1) * PerPage + 1 .. p * PerPage}

IsIssue(v) == edits[v].of \notin Pulls
Handled(s) == {v \in Page(s) : sync[s].count + Cardinality({w \in Page(s) : w < v /\ IsIssue(w)}) < Limit}
Latest(S) == IF S = {} THEN 0 ELSE CHOOSE t \in {edits[v].at : v \in S} : \A v \in S : edits[v].at <= t

\* What a sync stores of version v of an object: its metadata, and the text it has now.
Snapshot(v, text) == [stamp |-> v, text |-> text]

ListIssues(s) ==
    /\ Within(s, "issues")
    /\ LET issues == {v \in Handled(s) : IsIssue(v)}
           count  == sync[s].count + Cardinality(issues)
           last   == Cardinality(Page(s)) < PerPage \/ sync[s].page = MaxPages \/ count >= Limit
       IN Goes(s, [sync[s] EXCEPT
              !.at = IF last THEN "store" ELSE "issues",
              !.page = @ + 1,
              !.read = @ \union {Snapshot(v, v) : v \in issues},
              !.count = count,
              !.newest = IF Latest(Handled(s)) > @ THEN Latest(Handled(s)) ELSE @,
              !.cut = last /\ (count >= Limit \/ Cardinality(Page(s)) = PerPage)])
    /\ UNCHANGED <<status, cursor, rows>>

\* Google Calendar: every page of one list of changes, or of all events, in which
\* deleted ones may still be found; the token that ends it stands for that list.
ListEvents(s) ==
    /\ Within(s, "events")
    /\ sync[s].from = 0 \/ sync[s].from > expired
    /\ \E dead \in SUBSET (Current(sync[s].target) \ LiveIn(sync[s].target)) :
          LET events == IF sync[s].from = 0 THEN LiveIn(sync[s].target) \union dead
                        ELSE {v \in Current(sync[s].target) : v >= sync[s].from}
          IN IF Cardinality(events) > Limit
             THEN Fails(s, "ERROR")
             ELSE /\ Goes(s, [sync[s] EXCEPT !.at = "store", !.read = {Snapshot(v, v) : v \in events},
                                             !.newest = Len(edits) + 1])
                  /\ UNCHANGED <<status, cursor, rows>>

\* HTTP 410: the adapter is called once more, without the token.
FullSyncRequired(s) ==
    /\ Within(s, "events") /\ sync[s].from \in 1..expired
    /\ Goes(s, [sync[s] EXCEPT !.from = 0])
    /\ UNCHANGED <<status, cursor, rows>>

\* Google Drive: the files of the folder are listed, then read one by one.
ListFolder(s) ==
    /\ Within(s, "folder")
    /\ LET files == LiveIn(sync[s].target) IN
       IF Cardinality(files) > Limit
       THEN Fails(s, "ERROR")
       ELSE /\ Goes(s, [sync[s] EXCEPT !.at = IF files = {} THEN "store" ELSE "files", !.listed = files])
            /\ UNCHANGED <<status, cursor, rows>>

ReadFileContent(s, v) ==
    /\ Within(s, "files") /\ v \in sync[s].listed /\ Live(edits[v].of)
    /\ LET left == sync[s].listed \ {v} IN
       Goes(s, [sync[s] EXCEPT !.at = IF left = {} THEN "store" ELSE "files", !.listed = left,
                               !.read = @ \union {Snapshot(v, Version(edits[v].of))}])
    /\ UNCHANGED <<status, cursor, rows>>

\* A snapshot is found by what it says, or else inserted: GitHub's in the order of the
\* list, the others in the provider's.
StoreSnapshot(s, r) ==
    /\ Within(s, "store") /\ r \in sync[s].read
    /\ provider = "GITHUB" => \A q \in sync[s].read : r.stamp <= q.stamp
    /\ LET row == [space |-> sync[s].space, stamp |-> r.stamp, text |-> r.text] IN
       rows' = IF \E k \in DOMAIN rows : rows[k] = row THEN rows ELSE Append(rows, row)
    /\ Goes(s, [sync[s] EXCEPT !.read = @ \ {r}])
    /\ UNCHANGED <<status, cursor>>

StoreFails(s) == Within(s, "store") /\ Fails(s, "ERROR")

\* Mutant: the next sync starts after the newest second.
NextMarkAfter(s) == IF sync[s].newest = 0 THEN sync[s].from ELSE sync[s].newest + 1

\* _overlap_cursor: one second is read again.
NextMark(s) ==
    IF provider # "GITHUB" THEN sync[s].newest
    ELSE IF sync[s].newest = 0 THEN sync[s].from ELSE sync[s].newest - 1

SaveCursor(s) ==
    /\ Within(s, "store") /\ sync[s].read = {}
    /\ cursor' = [target |-> sync[s].target, mark |-> NextMark(s)]
    /\ Goes(s, [sync[s] EXCEPT !.at = "done"])
    /\ UNCHANGED <<status, rows>>

\* The response is sent.
SyncReturns(s) == Within(s, "done") /\ Goes(s, NoSync) /\ UNCHANGED <<status, cursor, rows>>

\* verify_and_connect after an error.
VerifyAgain ==
    /\ status = "ERROR" /\ status' = "CONNECTED"
    /\ UNCHANGED <<accountVars, cursor, rows, sync, begun>>

\* The process stops.
ProcessStops ==
    /\ sync # [s \in SyncThreads |-> NoSync] /\ sync' = [s \in SyncThreads |-> NoSync]
    /\ UNCHANGED <<accountVars, status, cursor, rows, begun>>

SyncNext ==
    \/ \E o \in Objects, gone \in BOOLEAN : Edit(o, gone)
    \/ Expire \/ VerifyAgain \/ ProcessStops
    \/ \E s \in SyncThreads :
         \/ \E space \in Spaces, target \in Targets : SyncConnection(s, space, target)
         \/ ListIssues(s) \/ ListEvents(s) \/ FullSyncRequired(s) \/ ListFolder(s)
         \/ \E v \in sync[s].listed : ReadFileContent(s, v)
         \/ \E r \in sync[s].read : StoreSnapshot(s, r)
         \/ RequestFails(s) \/ StoreFails(s) \/ SaveCursor(s) \/ SyncReturns(s)

SyncSpec == SyncInit /\ [][SyncNext]_syncVars

-----------------------------------------------------------------------------
\* Every variable keeps its type.
SyncTypeOK ==
    /\ provider \in Providers /\ risks \in Risks /\ status \in {"CONNECTED", "ERROR"}
    /\ Len(edits) <= MaxEdits /\ begun \in 0..MaxSyncs
    /\ \A v \in DOMAIN edits : edits[v].of \in Objects /\ edits[v].gone \in BOOLEAN
    /\ cursor.target \in Targets /\ cursor.mark \in 0..2 * MaxEdits + 2
    /\ \A k \in DOMAIN rows : rows[k].space \in Spaces /\ {rows[k].stamp, rows[k].text} \subseteq DOMAIN edits
    /\ \A s \in SyncThreads : sync[s].count <= Limit + PerPage /\ sync[s].page \in 1..MaxPages + 1

Of(row) == edits[row.stamp].of
InSpace(space, o) == {k \in DOMAIN rows : rows[k].space = space /\ Of(rows[k]) = o}

\* "is_latest_revision answers whether this is the newest observed version": the rows
\* of one object come in the order of its versions, metadata and text, whatever fails,
\* stops and is read again; syncs that overlap may break it.
LatestIsNewest ==
    "overlap" \notin risks =>
        \A j, k \in DOMAIN rows :
            j < k /\ rows[j].space = rows[k].space /\ Of(rows[j]) = Of(rows[k]) =>
                rows[j].stamp <= rows[k].stamp /\ rows[j].text <= rows[k].text

\* The text of a row is never older than the metadata that dates it.
TextAsNewAsStamp == \A k \in DOMAIN rows : rows[k].stamp <= rows[k].text

\* What the saved cursor has passed over was stored: no failure, stop or equal second
\* makes the next sync skip an issue or an event for good.
CursorCovers ==
    risks \subseteq {"overlap"} => \A o \in Objects :
        /\ Live(o)
        /\ \/ /\ provider = "GITHUB" /\ o \notin Pulls /\ o[1] = Usual(Targets)
              /\ edits[Version(o)].at < cursor.mark
           \/ provider = "GOOGLE_CALENDAR" /\ o[1] = cursor.target /\ Version(o) < cursor.mark
        => \E k \in InSpace(Usual(Spaces), o) : rows[k].stamp = Version(o)

\* A sync that a limit cut short gets the next one further, unless as many issues as a
\* sync takes were updated within the second that is read again.
CutAdvances ==
    \A s \in SyncThreads : sync[s].at = "done" /\ sync[s].cut /\ sync[s].seen = Len(edits) =>
        LET crowd == Cardinality({v \in Issues(s) : edits[v].at \in sync[s].from .. sync[s].from + 1})
        IN NextMark(s) > sync[s].from \/ crowd >= Limit \/ crowd >= PerPage * MaxPages

\* The records of external objects are in order.
SyncInv == SyncTypeOK /\ LatestIsNewest /\ TextAsNewAsStamp /\ CursorCovers /\ CutAdvances

\* A sync that was not cut short, and during which nothing was edited.
Complete(s) == sync[s].at = "done" /\ ~sync[s].cut /\ sync[s].seen = Len(edits)

Mirrors(space, target) ==
    \A o \in Objects : Live(o) /\ o[1] = target /\ ~(provider = "GITHUB" /\ o \in Pulls) =>
        \E k \in InSpace(space, o) : rows[k].stamp = Version(o) /\ rows[k].text = Version(o)

\* After a complete sync of a connection that serves one Space, that Space has the
\* present version of every object of the target, however many syncs failed before.
MirrorAfterSync ==
    risks = {} => \A s \in SyncThreads : Complete(s) => Mirrors(sync[s].space, sync[s].target)

\* "The same external object synced into different Spaces forms a row of its own in
\* each": a complete sync leaves its Space with every object of the target.
EverySpaceMirrored == \A s \in SyncThreads : Complete(s) => Mirrors(sync[s].space, sync[s].target)
=============================================================================
