----------------------------- MODULE FileStores -----------------------------
(***************************************************************************)
(* What turns leave behind when DATABASE_URL is "file": the preferences of *)
(* a buyer, the snapshot of a session's agent and the lines of its         *)
(* conversation (app/infrastructure/persistence/json_file_stores.py).      *)
(*                                                                         *)
(* The stores never yield to the event loop, so an operation is one        *)
(* action.  A write may be cut: the process is killed or the disk is full  *)
(* in the middle of it.  A file that is written anew is then no JSON; a    *)
(* file that is appended to keeps what it had and a part of the line.  A   *)
(* text may hold a character at which splitlines() ends a line, though     *)
(* json.dumps() writes it as it is (U+2028, U+2029, U+0085).               *)
(***************************************************************************)
EXTENDS Integers, Sequences, FiniteSets, SequencesExt

CONSTANTS
    Owners,     \* buyers
    NameOf,     \* NameOf[b]: _safe_name(), which may name two buyers alike
    Tastes,     \* like and dislike
    Sayings,    \* what a preference may say
    Chats,      \* sessions, no two of them with the same safe name
    ReadLimit,  \* limit of list_turns()
    NoFile,
    Torn,       \* what is no JSON: empty or a part
    MaxWrites,  \* bound
    MaxHarms    \* bound: writes cut, and records that are not read as one line

Likes  == [buyer : Owners, kind : Tastes, says : Sayings]
Names  == {NameOf[b] : b \in Owners}

\* What a piece of a line is: a record, a part of one, or what makes the reading
\* of the file raise: a part of a character, which cannot be decoded, or a piece
\* that is JSON but no object, which is dangling as long as it ends its line.
Parts  == [what : {"session", "turn", "event", "broken", "spoiling", "dangling"},
           write : 1..MaxWrites]

ASSUME FilesAssumption ==
    /\ ReadLimit \in Nat \ {0}
    /\ MaxWrites \in Nat /\ MaxHarms \in Nat
    /\ NoFile # Torn
    /\ \A f \in {NoFile, Torn} : f \notin 1..MaxWrites /\ \A list \in SUBSET Likes : f # list
    /\ NoFile \notin Seq(Seq(Parts))

VARIABLES
    liked,     \* liked[p]: the file of preferences at path p
    legacy,    \* legacy[n]: the one written before paths had a hash
    snapshot,  \* snapshot[s]: the number of the save it holds
    lines,     \* lines[s]: the lines of the conversation
    open,      \* sessions whose last line has no line feed yet
    meant,     \* history: the preferences a buyer means to have
    told,      \* history: the turns of each session in the order of their writing
    scarred,   \* history: buyers and sessions with a file that was harmed
    saves,     \* history: the latest save of each session that went well
    writes, harms

fileVars == <<liked, legacy, snapshot, lines, open, meant, told, scarred, saves, writes, harms>>

FilesTypeOK ==
    /\ \A p \in DOMAIN liked : liked[p] \in {NoFile, Torn} \cup SUBSET Likes
    /\ \A n \in Names : legacy[n] \in {NoFile} \cup SUBSET Likes
    /\ snapshot \in [Chats -> {NoFile, Torn} \cup 1..MaxWrites]
    /\ \A s \in Chats : lines[s] = NoFile \/ lines[s] \in Seq(Seq(Parts))
    /\ open \subseteq Chats /\ scarred \subseteq Owners \cup Chats
    /\ meant \in [Owners -> SUBSET (Tastes \X Sayings)]
    /\ told \in [Chats -> Seq(Parts)]
    /\ saves \in [Chats -> {NoFile} \cup 1..MaxWrites]
    /\ writes \in 0..MaxWrites /\ harms \in 0..MaxHarms

----------------------------------------------------------------------------
(***************************************************************************)
(* Reading.                                                                *)
(***************************************************************************)
\* Mutant: the safe name alone.
PathByName(b) == NameOf[b]

\* JsonFilePreferenceStore._path(): the safe name and a hash of the buyer.
Path(b) == <<NameOf[b], b>>

Paths == {Path(b) : b \in Owners}

\* list_by_buyer(): the file of the buyer, or the one from before; nothing if
\* it is torn or names another buyer.
PreferencesOf(b) ==
    LET file == IF liked[Path(b)] # NoFile THEN liked[Path(b)] ELSE legacy[NameOf[b]]
    IN  IF file \in {NoFile, Torn} \/ \E l \in file : l.buyer # b THEN {} ELSE file

\* A line that holds one record is read, any other is passed over.
Tells(line, what) == Len(line) = 1 /\ line[1].what = what

\* read_text() can decode every line, and every line that is JSON is an object;
\* else list_turns() and find_session() raise.
Decodes(line) == \A k \in DOMAIN line : line[k].what # "spoiling"
Sound(file)   == \A i \in DOMAIN file : Decodes(file[i]) /\ Last(file[i]).what # "dangling"

Readable(s) == lines[s] # NoFile => Sound(lines[s])

\* The turns a file tells of, in the order of its lines.
TurnsOf(file) ==
    LET upTo[n \in 0..Len(file)] ==
            IF n = 0 THEN <<>>
            ELSE IF Tells(file[n], "turn") THEN Append(upTo[n - 1], file[n][1])
            ELSE upTo[n - 1]
    IN  upTo[Len(file)]

\* The turns on undamaged lines.
Turned(s) == IF lines[s] = NoFile THEN <<>> ELSE TurnsOf(lines[s])

LastRecords(seq) == SubSeq(seq, IF Len(seq) > ReadLimit THEN Len(seq) - ReadLimit + 1 ELSE 1, Len(seq))

\* list_turns() of a file that is readable.
ListTurns(s) == LastRecords(Turned(s))

\* find_session() knows the buyer only from the line touch_session() wrote.
FindSession(s) == lines[s] # NoFile /\ \E i \in 1..Len(lines[s]) : Tells(lines[s][i], "session")

\* What a list of preferences means, whoever it names.
Meaning(list) == {<<l.kind, l.says>> : l \in list}

----------------------------------------------------------------------------
FilesInit ==
    /\ liked = [p \in Paths |-> NoFile]
    /\ legacy \in [Names -> {NoFile} \cup SUBSET Likes]
    /\ \A n \in Names : legacy[n] # NoFile => \A l \in legacy[n] : NameOf[l.buyer] = n
    /\ snapshot = [s \in Chats |-> NoFile]
    /\ lines = [s \in Chats |-> NoFile]
    /\ open = {} /\ scarred = {}
    /\ meant = [b \in Owners |-> Meaning(PreferencesOf(b))]
    /\ told = [s \in Chats |-> <<>>]
    /\ saves = [s \in Chats |-> NoFile]
    /\ writes = 0 /\ harms = 0

Write == writes < MaxWrites /\ writes' = writes + 1
Harm  == harms < MaxHarms /\ harms' = harms + 1

\* _write(): the file is emptied, then written.
Rewrite(b, list) ==
    /\ Write
    /\ \/ liked' = [liked EXCEPT ![Path(b)] = list] /\ UNCHANGED <<scarred, harms>>
       \/ /\ Harm
          /\ liked' = [liked EXCEPT ![Path(b)] = Torn]
          /\ scarred' = scarred \cup {b}
    /\ UNCHANGED <<legacy, snapshot, lines, open, told, saves>>

\* append(): never the same twice.
AppendPreference(l) ==
    LET list == PreferencesOf(l.buyer)
    IN  /\ meant' = [meant EXCEPT ![l.buyer] = @ \cup {<<l.kind, l.says>>}]
        /\ l \notin list /\ Rewrite(l.buyer, list \cup {l})

\* delete(): everything that says so, liked or not.
DeletePreference(b, w) ==
    LET remaining == {l \in PreferencesOf(b) : l.says # w}
    IN  /\ meant' = [meant EXCEPT ![b] = {p \in @ : p[2] # w}]
        /\ IF remaining = PreferencesOf(b)
           THEN UNCHANGED <<liked, legacy, snapshot, lines, open, told, scarred, saves,
                            writes, harms>>
           ELSE Rewrite(b, remaining)

\* JsonFileSessionStore.save() of SessionRegistry.persist().
Save(s) ==
    /\ Write
    /\ \/ /\ snapshot' = [snapshot EXCEPT ![s] = writes + 1]
          /\ saves' = [saves EXCEPT ![s] = writes + 1] /\ UNCHANGED harms
       \/ Harm /\ snapshot' = [snapshot EXCEPT ![s] = Torn]
          /\ saves' = [saves EXCEPT ![s] = NoFile]
    /\ UNCHANGED <<liked, legacy, lines, open, meant, told, scarred>>

\* load() and _try_restore(): what is no snapshot, or cannot be read, makes a
\* new session.
Restored(s) == IF snapshot[s] \in {NoFile, Torn} THEN NoFile ELSE snapshot[s]

----------------------------------------------------------------------------
(***************************************************************************)
(* The conversation.                                                       *)
(***************************************************************************)
\* The lines once a part has been written behind what is there.
Behind(s, part) ==
    IF lines[s] = NoFile THEN <<<<part>>>>
    ELSE IF s \in open THEN [lines[s] EXCEPT ![Len(lines[s])] = Append(@, part)]
    ELSE Append(lines[s], <<part>>)

Part(what) == [what |-> what, write |-> writes + 1]

As(part, what) == [part EXCEPT !.what = what]

\* _append_line().  A record whose text ends a line is read in pieces, none of
\* them a record.  A cut leaves an empty file if there was none, a part of the
\* record, also of a character in it, or all of it without the line feed.
AppendLine(s, part) ==
    \/ /\ lines' = [lines EXCEPT ![s] = Behind(s, part)]
       /\ open' = open \ {s} /\ UNCHANGED <<scarred, harms>>
    \/ /\ Harm /\ scarred' = scarred \cup {s}
       /\ \/ /\ \E what \in {"broken", "spoiling"} :
                   lines' = [lines EXCEPT ![s] = Behind(s, As(part, what))]
             /\ open' = open \ {s}
          \/ /\ lines' = [lines EXCEPT ![s] = IF @ = NoFile THEN <<>> ELSE @]
             /\ UNCHANGED open
          \/ /\ \E what \in {part.what, "broken", "spoiling", "dangling"} :
                   lines' = [lines EXCEPT ![s] = Behind(s, As(part, what))]
             /\ open' = open \cup {s}

Kept == <<liked, legacy, snapshot, meant, saves>>

\* touch_session(): nothing if there is a file, even an empty one.
TouchSession(s) ==
    /\ lines[s] = NoFile
    /\ AppendLine(s, Part("session")) /\ Write
    /\ UNCHANGED <<Kept, told>>

\* append_turn(), after the session was touched.
AppendTurn(s) ==
    /\ lines[s] # NoFile
    /\ AppendLine(s, Part("turn")) /\ Write
    /\ told' = [told EXCEPT ![s] = Append(@, Part("turn"))]
    /\ UNCHANGED Kept

\* append_events(), one line each.
AppendEvent(s) ==
    /\ lines[s] # NoFile
    /\ AppendLine(s, Part("event")) /\ Write
    /\ UNCHANGED <<Kept, told>>

PreferencesNext ==
    \/ \E l \in Likes : AppendPreference(l)
    \/ \E b \in Owners, w \in Sayings : DeletePreference(b, w)

ChatsNext == \E s \in Chats : Save(s) \/ TouchSession(s) \/ AppendTurn(s) \/ AppendEvent(s)

FilesNext == PreferencesNext \/ ChatsNext

FilesSpec == FilesInit /\ [][FilesNext]_fileVars

----------------------------------------------------------------------------
(* Properties. *)

\* A buyer has the preferences told and not taken back, also those from before
\* the hash, whoever else has the same safe name; after a cut write perhaps
\* fewer, and never one that was taken back.
PreferencesAreMeant ==
    \A b \in Owners :
        LET has == Meaning(PreferencesOf(b))
        IN  has \subseteq meant[b] /\ (b \notin scarred => has = meant[b])

\* A restart goes on from the last snapshot of the session, or from nothing if
\* that one was cut: never from an older one.
RestoresLatest == \A s \in Chats : Restored(s) = saves[s]

\* As long as no write of a session was cut and no text of it ends a line, the
\* conversation is read back as it was written.  After a harm it may be beyond
\* reading; else the turns are read in the order they were written, and a harm
\* costs at most its own record and the one written behind it.
TurnsReadable ==
    \A s \in Chats :
        /\ Readable(s) =>
              /\ \A i, j \in DOMAIN Turned(s) : i < j => Turned(s)[i].write < Turned(s)[j].write
              /\ ToSet(Turned(s)) \subseteq ToSet(told[s])
              /\ Cardinality(ToSet(told[s]) \ ToSet(Turned(s))) <= 2 * harms
        /\ s \notin scarred => /\ Readable(s) /\ ListTurns(s) = LastRecords(told[s])
                               /\ told[s] # <<>> => FindSession(s)

FilesAreTrue == PreferencesAreMeant /\ RestoresLatest /\ TurnsReadable

\* "A damaged line does not affect the other records" (list_turns(), where a
\* line that is no JSON is passed over).  It may: what cannot be decoded, and
\* what is JSON but no object, keeps every turn of the session from being read.
DamageStaysInItsLine == \A s \in Chats : Turned(s) # <<>> => Readable(s)
=============================================================================
