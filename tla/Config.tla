------------------------------- MODULE Config -------------------------------
(***************************************************************************)
(* How a process gets from its command line to a client of the HariKube    *)
(* backend (cmd/main.go, and New and clientConfig in                       *)
(* internal/apiserver/server.go): it looks at the TLS files, splits the    *)
(* lists, waits for the manager to start it, and reads the files; with the *)
(* mounted secret that is replaced at any time, the etcd client, and the   *)
(* kubelet that starts a process again.                                    *)
(*                                                                         *)
(* A text is a sequence of commas, spaces and words.                       *)
(***************************************************************************)
EXTENDS Naturals, FiniteSets, SequencesExt

CONSTANTS
    HttpsWords,   \* words with the prefix "https://"
    SecureWords,  \* words whose scheme is TLS to the etcd client: these, "HTTPS://", "unixs:"
    PlainWords,   \* words whose scheme is http to it, in any case
    Lists,        \* the texts of the two lists: [core, urls]
    Mounts,       \* what the mounted files may be
    MaxChanges,   \* bound: how often they are replaced
    MaxFaults     \* bound: how often a process ends by itself

Options == <<"cert", "key", "ca">>
AllOptions == Range(Options)

\* Bounds are numbers, texts are sequences of strings, a file is one of four, and a word
\* has one scheme or none.
ASSUME ConfigAssumption ==
    /\ HttpsWords \subseteq SecureWords
    /\ SecureWords \cap PlainWords = {}
    /\ MaxChanges \in Nat /\ MaxFaults \in Nat
    /\ Lists \subseteq [core : Seq(STRING), urls : Seq(STRING)]
    /\ Mounts \subseteq [AllOptions -> {"missing", "empty", "bad", "good"}]

VARIABLES
    given,         \* the file options of the command line
    coreText, urlText,
    file,          \* each file: "missing" (or unreadable), "empty", "bad" or "good"
    pc, at,        \* where the process is, and the option it looks at
    used,          \* the options that are still set
    core, urls,    \* the lists
    seen,          \* history: each file when it was looked at
    changes, faults

line == <<given, coreText, urlText>>
vars == <<line, file, pc, at, used, core, urls, seen, changes, faults>>

Init ==
    /\ given \in SUBSET AllOptions
    /\ \E l \in Lists : coreText = l.core /\ urlText = l.urls
    /\ file \in Mounts
    /\ pc = "checking"
    /\ at = 1
    /\ used = given
    /\ core = <<>>
    /\ urls = <<>>
    /\ seen = [o \in AllOptions |-> "none"]
    /\ changes = 0
    /\ faults = 0

-----------------------------------------------------------------------------
(* The lists. *)

Blank(text) == \A i \in DOMAIN text : text[i] = " "

TrimSpace[text \in Seq(STRING)] ==
    LET ink == {i \in DOMAIN text : text[i] # " "}
    IN  IF ink = {} THEN <<>> ELSE SubSeq(text, Min(ink), Max(ink))

\* The elements of a set of integers in increasing order.
InOrder[S \in SUBSET Nat] ==
    [j \in 1..Cardinality(S) |-> CHOOSE x \in S : Cardinality({y \in S : y <= x}) = j]

\* strings.Split(text, ","): each separator ends a part, and so does the text.
Ends(text) == {e \in 1..(Len(text) + 1) : e = Len(text) + 1 \/ text[e] = ","}
Part(text, e) == SubSeq(text, Max({0} \cup (Ends(text) \cap 1..(e - 1))) + 1, e - 1)

Element(text, e) == TrimSpace[Part(text, e)]

\* Mutant: empty elements are dropped from all lists.
SplitDropping(text, preserveEmpty) ==
    LET kept == InOrder[{e \in Ends(text) : Element(text, e) # <<>>}]
    IN  [j \in DOMAIN kept |-> Element(text, kept[j])]

splitCommaSeparated(text, preserveEmpty) ==
    IF Blank(text) THEN <<>>
    ELSE LET kept == InOrder[{e \in Ends(text) : preserveEmpty \/ Element(text, e) # <<>>}]
         IN  [j \in DOMAIN kept |-> Element(text, kept[j])]

-----------------------------------------------------------------------------
(* main. *)

\* Mutant: a file may be passed over.
SkipUnchecked ==
    /\ pc = "checking"
    /\ at \in DOMAIN Options
    /\ at' = at + 1
    /\ UNCHANGED <<line, file, pc, used, core, urls, seen, changes, faults>>

\* An option that is not given.
SkipFile ==
    /\ pc = "checking"
    /\ at \in DOMAIN Options
    /\ Options[at] \notin given
    /\ at' = at + 1
    /\ UNCHANGED <<line, file, pc, used, core, urls, seen, changes, faults>>

LookAt(o) ==
    /\ pc = "checking"
    /\ at \in DOMAIN Options
    /\ o = Options[at]
    /\ o \in given
    /\ at' = at + 1
    /\ seen' = [seen EXCEPT ![o] = file[o]]
    /\ UNCHANGED <<line, file, core, urls, changes, faults>>

\* Mutants: a file that is not there counts as empty; the size is compared the wrong
\* way.
CheckMissingIsEmpty(o) ==
    /\ LookAt(o)
    /\ pc' = pc
    /\ used' = IF file[o] \in {"missing", "empty"} THEN used \ {o} ELSE used
CheckInverted(o) ==
    /\ LookAt(o)
    /\ pc' = IF file[o] = "missing" THEN "exited" ELSE pc
    /\ used' = IF file[o] \in {"good", "bad"} THEN used \ {o} ELSE used

\* An empty file unsets its option, a missing or unreadable one ends the process.
CheckFile(o) ==
    /\ LookAt(o)
    /\ pc' = IF file[o] = "missing" THEN "exited" ELSE pc
    /\ used' = IF file[o] = "empty" THEN used \ {o} ELSE used

\* The server is added to the manager.
New ==
    /\ pc = "checking"
    /\ at \notin DOMAIN Options
    /\ core' = splitCommaSeparated(coreText, TRUE)
    /\ urls' = splitCommaSeparated(urlText, FALSE)
    /\ pc' = "added"
    /\ UNCHANGED <<line, file, at, used, seen, changes, faults>>

-----------------------------------------------------------------------------
(* The manager starts the server, maybe much later (when it becomes the    *)
(* leader): clientConfig and the client.  An error ends the process.       *)

HasHttps == \E j \in DOMAIN urls : urls[j] # <<>> /\ urls[j][1] \in HttpsWords

Started(outcome) ==
    /\ pc = "added"
    /\ pc' = outcome
    /\ UNCHANGED <<line, file, at, used, core, urls, seen, changes, faults>>

MissingTLSConfig ==
    /\ used # AllOptions
    /\ HasHttps
    /\ Started("exited")

\* The etcd client takes its credentials from the scheme of its first endpoint: http
\* drops the TLS configuration it was given, and https has one even if none was.
\* Without a scheme, or with a text that is no URL (as a space may make it), it has TLS
\* if it was given a configuration.
Dialled(configured) ==
    LET first == urls[1]
        default == IF configured THEN "tls" ELSE "plain"
        chosen == IF first[1] \in PlainWords THEN "plain"
                  ELSE IF first[1] \in SecureWords THEN "tls" ELSE default
    IN  {chosen} \cup {d \in {default} : Contains(first, " ")}

\* Mutant: the URLs are not looked at.
ConnectUnchecked ==
    /\ used # AllOptions
    /\ urls # <<>>
    /\ \E outcome \in Dialled(FALSE) : Started(outcome)

ConnectWithoutConfig ==
    /\ used # AllOptions
    /\ ~ HasHttps
    /\ urls # <<>>
    /\ \E outcome \in Dialled(FALSE) : Started(outcome)

\* The certificate and its key must be there and fit; the CA's file must be there.
ConnectWithConfig ==
    /\ used = AllOptions
    /\ file["cert"] = "good" /\ file["key"] = "good"
    /\ file["ca"] # "missing"
    /\ urls # <<>>
    /\ \E outcome \in Dialled(TRUE) : Started(outcome)

LoadFails ==
    /\ used = AllOptions
    /\ \E o \in AllOptions : file[o] # "good"
    /\ Started("exited")

\* The etcd client wants an endpoint.
NoEndpoint ==
    /\ urls = <<>>
    /\ Started("exited")

-----------------------------------------------------------------------------
\* A crash, a port in use, a lost lease.
Die ==
    /\ pc # "exited"
    /\ faults < MaxFaults
    /\ faults' = faults + 1
    /\ pc' = "exited"
    /\ UNCHANGED <<line, file, at, used, core, urls, seen, changes>>

Restart ==
    /\ pc = "exited"
    /\ pc' = "checking"
    /\ at' = 1
    /\ used' = given
    /\ core' = <<>>
    /\ urls' = <<>>
    /\ seen' = [o \in AllOptions |-> "none"]
    /\ UNCHANGED <<line, file, changes, faults>>

\* The mounted secret is replaced.
Remount ==
    /\ changes < MaxChanges
    /\ changes' = changes + 1
    /\ file' \in Mounts \ {file}
    /\ UNCHANGED <<line, pc, at, used, core, urls, seen, faults>>

Process ==
    \/ SkipFile \/ New
    \/ \E o \in AllOptions : CheckFile(o)
    \/ MissingTLSConfig \/ ConnectWithoutConfig \/ ConnectWithConfig \/ LoadFails \/ NoEndpoint

Next == Process \/ Die \/ Restart \/ Remount

Spec == Init /\ [][Next]_vars

\* The process and the kubelet.
FairSpec == Spec /\ WF_vars(Process) /\ WF_vars(Restart)

-----------------------------------------------------------------------------
(* Properties. *)

Split == pc \in {"added", "plain", "tls"}

\* Every variable holds a value of its kind; only given options are used, and none
\* whose file main has not looked at.
TypeOK ==
    /\ given \subseteq AllOptions
    /\ [core |-> coreText, urls |-> urlText] \in Lists
    /\ file \in Mounts
    /\ pc \in {"checking", "added", "plain", "tls", "exited"}
    /\ at \in 1..(Len(Options) + 1)
    /\ used \subseteq given
    /\ Split => \A o \in used : seen[o] \in {"bad", "good"}
    /\ \A list \in {core, urls} : Len(list) <= Len(coreText) + Len(urlText) + 1
    /\ DOMAIN seen = AllOptions
    /\ changes \in 0..MaxChanges
    /\ faults \in 0..MaxFaults

\* The word at i begins an element: between it and the separator before are spaces.
Begins(text, i) ==
    /\ text[i] \notin {",", " "}
    /\ \E b \in 0..(i - 1) :
          /\ b = 0 \/ text[b] = ","
          /\ \A k \in (b + 1)..(i - 1) : text[k] = " "

Starts(text) == InOrder[{i \in DOMAIN text : Begins(text, i)}]

\* The first element that is a word has the scheme http.
HttpIsFirst ==
    Starts(urlText) # <<>> /\ urlText[Starts(urlText)[1]] \in PlainWords

\* Connections are in the clear only if an option was left out, or its file was empty
\* when main looked at it, or the first URL is an http one, which turns TLS off for all
\* of them: a file that is missing, broken, or replaced before the manager starts the
\* server is an error instead.
PlainIsWanted ==
    pc = "plain" => HttpIsFirst \/ \E o \in AllOptions : o \notin given \/ seen[o] = "empty"

\* They are in the clear although an element of the list is an https URL, however it is
\* padded, in one case only: an http URL is before it, and the three files were there.
HttpsNeedsTLS ==
    pc = "plain" /\ (\E i \in DOMAIN urlText : Begins(urlText, i) /\ urlText[i] \in HttpsWords) =>
        HttpIsFirst /\ \A o \in AllOptions : o \in given /\ seen[o] \in {"bad", "good"}

\* The core group, the empty element, is in its list exactly if the list has other
\* characters than spaces and an empty place between two separators (or an end).
CoreGroupKept ==
    Split =>
        LET bound(i) == i \in {0, Len(coreText) + 1} \/ coreText[i] = ","
        IN  Contains(core, <<>>) <=>
                /\ ~ Blank(coreText)
                /\ \E i, j \in 0..(Len(coreText) + 1) :
                      /\ i < j /\ bound(i) /\ bound(j)
                      /\ \A k \in (i + 1)..(j - 1) : coreText[k] = " "

\* The endpoints are the elements with words, in order, without their padding.
UrlsAreListed ==
    Split =>
        LET starts == Starts(urlText)
        IN  /\ Len(urls) = Len(starts)
            /\ \A j \in DOMAIN urls :
                  /\ urls[j] # <<>>
                  /\ urls[j][1] = urlText[starts[j]]
                  /\ Last(urls[j]) # " "

\* Both lists are what the command line says.
ListsAreRead == CoreGroupKept /\ UrlsAreListed

\* With all options and an endpoint given, and files that are good from some time on, a
\* process is connected in the end, whatever the files were when earlier ones failed.
Settles ==
    given = AllOptions /\ (\E i \in DOMAIN urlText : Begins(urlText, i)) =>
        (<>[](\A o \in AllOptions : file[o] = "good") => <>[](pc \in {"plain", "tls"}))
=============================================================================
