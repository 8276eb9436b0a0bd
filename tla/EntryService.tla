---------------------------- MODULE EntryService ----------------------------
(***************************************************************************)
(* What the requests of EntryStore promise: each takes effect at once or   *)
(* not at all, and says what a committed state looks like.  There is no    *)
(* transaction, lock, snapshot or statement here, and every operation is   *)
(* stated by what holds afterwards.                                        *)
(***************************************************************************)
EXTENDS Integers, Sequences

CONSTANTS Users, Labels, Slug, Texts, Marks, MaxEntries, None,
          Requests, Changes, LabelLists

VARIABLES entries, tags, links, index, reply

vars == <<entries, tags, links, index, reply>>

Model == INSTANCE EntryTables

EntryIds == 1..MaxEntries

TagIds(tagRows, u, ls) ==
    {t.id : t \in {s \in tagRows : s.owner = u /\ s.label \in Model!LabelsOf(ls)}}

\* The article as it is answered: never the state before the commit.
Shown(e, row, tagRows, linked) ==
    IF Model!Convertible(row)
    THEN [status |-> "shown", row |-> row, tags |-> {t \in tagRows : <<e, t.id>> \in linked}]
    ELSE [status |-> "error"]

Success(r) == reply'[r].status # "error"

\* r has no answer yet and gets one.
Answers(r) == reply[r] = None /\ reply'[r] # None

Others(e) == \A i \in EntryIds \ {e} : entries'[i] = entries[i]

\* A list of labels was asked for a user: old tags stay, each new tag has one
\* of the labels and a slug of its own, every label has a tag of its slug.
TagsGrow(u, ls) ==
    /\ tags \subseteq tags'
    /\ \A t \in tags' \ tags :
          /\ t.owner = u /\ t.label \in Model!LabelsOf(ls)
          /\ \A s \in tags' \ {t} :
                s.id # t.id /\ (s.owner = u => Slug[s.label] # Slug[t.label])
    /\ \A l \in Model!LabelsOf(ls) :
          \E t \in tags' : t.owner = u /\ Slug[t.label] = Slug[l]

\* The links of other articles stay; those of e become the tags of u that
\* carry one of the labels.
Relink(u, e, ls) ==
    links' = {l \in links : l[1] # e} \cup ({e} \X TagIds(tags', u, ls))

Create(r, u, ls) ==
    /\ \E e \in EntryIds :
          /\ entries[e] = None
          /\ entries'[e] # None /\ entries'[e].owner = u
          /\ Others(e)
          /\ TagsGrow(u, ls)
          /\ Relink(u, e, ls)
          /\ reply' = [reply EXCEPT ![r] = Shown(e, entries'[e], tags', links')]

\* ls is None when the tags stay as they are.
Patch(r, u, e, c, ls) ==
    /\ entries[e] # None /\ entries[e].owner = u
    /\ entries' = [entries EXCEPT ![e] = Model!ApplyChange(@, c)]
    /\ IF ls = None THEN UNCHANGED <<tags, links>> ELSE TagsGrow(u, ls) /\ Relink(u, e, ls)
    /\ reply' = [reply EXCEPT ![r] = Shown(e, entries'[e], tags', links')]
    /\ Success(r)

SetTags(r, u, e, ls) ==
    /\ entries[e] # None /\ entries[e].owner = u
    /\ UNCHANGED entries
    /\ TagsGrow(u, ls)
    /\ Relink(u, e, ls)
    /\ reply' = [reply EXCEPT ![r] = Shown(e, entries[e], tags', links')]
    /\ Success(r)

RemoveTag(r, u, e) ==
    /\ entries[e] # None /\ entries[e].owner = u
    /\ UNCHANGED <<entries, tags>>
    /\ \/ UNCHANGED links
       \/ \E l \in links : l[1] = e /\ links' = links \ {l}
    /\ reply' = [reply EXCEPT ![r] = Shown(e, entries[e], tags', links')]
    /\ Success(r)

\* The article goes with its links.
Vanish(u, e) ==
    /\ entries[e] # None /\ entries[e].owner = u
    /\ entries'[e] = None /\ Others(e)
    /\ links' = {l \in links : l[1] # e}
    /\ UNCHANGED tags

Remove(r, u, e) ==
    /\ Vanish(u, e)
    /\ \E answer \in {Model!DeletedId(e), Shown(e, entries[e], tags, links)} :
          reply' = [reply EXCEPT ![r] = answer]
    /\ Success(r)

Sent(r) ==
    /\ reply[r] # None
    /\ reply' = [reply EXCEPT ![r] = None]
    /\ UNCHANGED <<entries, tags, links, index>>

\* The web UI and /api/tags.
Silently(u, e, c) ==
    /\ UNCHANGED <<tags, links>>
    /\ entries[e] # None /\ entries[e].owner = u
    /\ entries'[e] # entries[e]
    /\ entries' = [entries EXCEPT ![e] = Model!ApplyChange(@, c)]

\* Tags of one user go with their links; articles stay.
DropTags(u) ==
    /\ tags' \subseteq tags /\ tags' # tags
    /\ \A t \in tags \ tags' : t.owner = u
    /\ links' = {l \in links : \E t \in tags' : t.id = l[2]}
    /\ UNCHANGED entries

\* The index follows every change.
Indexed ==
    index' = {<<e, entries'[e].title, entries'[e].text>> : e \in {i \in EntryIds : entries'[i] # None}}

Init ==
    /\ entries = [e \in EntryIds |-> None]
    /\ tags = {} /\ links = {} /\ index = {}
    /\ reply = [r \in Requests |-> None]

\* A request takes effect as it is answered.
Request(r) ==
    /\ Answers(r)
    /\ \E u \in Users :
          \/ \E ls \in LabelLists : Create(r, u, ls)
          \/ \E e \in EntryIds :
                \/ \E c \in Changes, ls \in LabelLists \cup {None} : Patch(r, u, e, c, ls)
                \/ \E ls \in LabelLists : SetTags(r, u, e, ls)
                \/ RemoveTag(r, u, e)
                \/ Remove(r, u, e)

\* The web UI and /api/tags answer nothing that matters here.
Silent ==
    /\ UNCHANGED reply
    /\ \E u \in Users :
          \/ \E e \in EntryIds : Vanish(u, e) \/ \E c \in Changes : Silently(u, e, c)
          \/ DropTags(u)

Next ==
    \/ \E r \in Requests : Request(r) /\ Indexed
    \/ Silent /\ Indexed
    \/ \E r \in Requests : Sent(r)

Spec == Init /\ [][Next]_vars
=============================================================================
