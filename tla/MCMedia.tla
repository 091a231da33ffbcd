-------------------------------- MODULE MCMedia --------------------------------
\* Videos, the catalogue and searches; they share no row, and one of them moves.
\* Of what searches keep, which is apart, there is one entry at a time.  An
\* entry depends on no other: readers ask for one key, whichever, and courses
\* rest when it shows none, what else they are shown with when it shows none of it
\* or what the list shows, too, and students come and go where a course is asked
\* for.  Without a queue there is one retry.
EXTENDS VideoPipeline, Catalogue, Search, TLC

VARIABLES focus, asked

MediaSymmetry == Permutations(Qualities) \cup Permutations(Handlers)

Trait(k, level, price, owner, language, sold, rating, found) ==
    [category |-> k, level |-> level, price |-> price, owner |-> owner,
     language |-> language, students |-> sold, rating |-> rating, rank |-> sold,
     newness |-> 9 - sold, found |-> found, titled |-> found]
SomeTraits ==
    ("a" :> Trait("math", "easy", 0, "x", "fr", 1, 3, {"t1"}))
        @@ ("b" :> Trait("math", "hard", 5, "y", "en", 1, 4, {"t1", "t2"}))
        @@ ("c" :> Trait("art", "hard", 5, "x", "fr", 2, 3, {"t2"}))
OneStem == [t \in Texts |-> "t"]

Init ==
    /\ focus \in {"videos", "catalogue", "search"}
    /\ SearchInit
    /\ VideoInit
    /\ CatalogueInit
    /\ asked \in Keys
    /\ focus # "catalogue" => category = [k \in Categories |-> "absent"] /\ asked = <<"settings">>
    /\ focus # "videos" => mode = "queue"

Next ==
    /\ UNCHANGED <<focus, asked>>
    /\ \/ /\ focus = "videos" /\ VideoNext /\ UNCHANGED <<catalogueVars, searchVars>>
          /\ mode = "queue" \/ retries' <= 1
       \/ /\ focus = "catalogue" /\ CatalogueNext /\ UNCHANGED <<videoVars, searchVars>>
          /\ \A x \in Handlers : handler'[x].at = "query" => handler'[x].key = asked
          /\ asked = <<"settings">> => course' = course
          /\ asked \notin {DetailKey(c) : c \in Courses} => students' = students
          /\ asked \in {<<"search">>, <<"featured">>, <<"categories">>} => contents' = contents
          /\ asked = <<"list">> => contents' = contents \/ figures' # figures
       \/ /\ focus = "search" /\ SearchNext /\ UNCHANGED <<videoVars, catalogueVars>>
          /\ Cardinality({p \in Pages : pages'[p] # NoResults})
                + Cardinality({t \in DOMAIN hints : hints'[t] # NoResults}) <= 1

vars == <<focus, asked, videoVars, catalogueVars, searchVars>>
Spec == Init /\ [][Next]_vars

\* Every variable of the modules keeps its type.
TypeOK == VideoTypeOK /\ CatalogueTypeOK
================================================================================
