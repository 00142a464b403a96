--------------------------- MODULE AutopickProps ---------------------------
(***************************************************************************)
(* What the question pipeline promises.                                    *)
(***************************************************************************)
EXTENDS Autopick

\* A question in the registry, and so one that can never be picked again, is
\* in a complete file of the day it was picked; so is every question that the
\* brief shows to the reader (autopick.py:587-597, 657).
RegisteredIsFiled ==
  /\ \A i \in DOMAIN registry :
       files[<<registry[i].date, Slug[registry[i].draft.key]>>] = registry[i].draft
  /\ brief # Absent => brief \subseteq Registered(registry)

\* The registry never has more than MaxPicks questions of one day, over all
\* the runs of that day (autopick.py:537-539).
WithinQuota ==
  \A day \in Days : Cardinality({i \in DOMAIN registry : registry[i].date = day}) <= MaxPicks

\* A link that is in the registry is registered again only by the run that
\* registered it, for another headline: no later run, on whatever day, makes a
\* question of it, although the LLM writes another title and another event_key
\* each time it is asked (autopick.py:392-397). Within a run the code compares
\* event_keys and titles only (556-562), so that two headlines with one link
\* both become questions, although line 551 says they do not.
OneQuestionPerStory ==
  [][\A i \in DOMAIN registry' \ DOMAIN registry, j \in DOMAIN registry :
       Url[registry'[i].draft.news] = Url[registry[j].draft.news] =>
         /\ registry'[i].draft.news # registry[j].draft.news
         /\ \E r \in Runs : pc[r] = "register" /\ registry[j].draft \in created[r]]_vars

\* An event is filed once, whatever the day: a run that was killed between the
\* file and its row, or within the write, leaves no row that could stop a later
\* run, but the file does (autopick.py:398-399, 587-597).
EventFiledOnce ==
  \A f, g \in Files :
    files[f] # Absent /\ files[g] # Absent /\ f[2] = g[2] => f = g

\* Once a file holds a question, no later run or pick puts another question in
\* its place (autopick.py:587).
FiledQuestionStands ==
  [][\A f \in Files : files[f] \in Drafts => files'[f] = files[f]]_vars

-----------------------------------------------------------------------------
(* What the code says and does not do *)

\* A news item is refused as a duplicate only for a question of the same link
\* or of a similar title: it has no event_key yet that could match a file, and
\* is_duplicate looks at the files only "if slug" (autopick.py:386, 398-399).
Known == (Registered(registry) \cup {files[f] : f \in Files}) \ {Absent, Torn}

RefusedForACause ==
  (\A f \in Files : files[f] # Torn) =>
    \A n \in News : is_duplicate(registry, Headline[n], NoKey, n) =>
      \E d \in Known :
        Url[d.news] = Url[n] \/ d.title = Headline[n] \/ {d.title, Headline[n]} \in Near

=============================================================================
