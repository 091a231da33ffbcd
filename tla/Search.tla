--------------------------------- MODULE Search ---------------------------------
(***************************************************************************)
(* Searches of the catalogue and suggestions while one types               *)
(* (src/modules/search), with the pages they share through the cache.      *)
(*                                                                         *)
(* The courses are those that are published, and rest: how entries get     *)
(* stale is in Catalogue.  Two requests that miss one entry store theirs   *)
(* one after the other, as if it had expired in between.                   *)
(***************************************************************************)
EXTENDS Integers, Sequences, FiniteSets, FiniteSetsExt, Functions

CONSTANTS
    Shelf,          \* courses
    TraitsOf,       \* their rows, and what texts they are similar to
    Texts,          \* what is searched for
    StemOf,         \* the first thirty letters, in small ones
    Topics, Levels, Owners, Languages, Fees,
    Sorts, Limits,
    Anything, NoResults

Traits ==
    [category : Topics, level : Levels, price : Fees, owner : Owners, language : Languages,
     students : 0..9, rating : 0..9, rank : 0..9, newness : 0..9,
     found : SUBSET Texts, titled : SUBSET Texts]

ASSUME SearchAssumption ==
    /\ TraitsOf \in [Shelf -> Traits] /\ IsFiniteSet(Shelf)
    /\ Fees \subseteq Nat /\ Limits \subseteq Nat \ {0} /\ Anything \notin Nat

VARIABLES
    pages,      \* entries courses:list:<page>
    hints,      \* entries search:suggest:<stem>
    answer      \* the last

searchVars == <<pages, hints, answer>>

-----------------------------------------------------------------------------
(* What is asked for *)

Pages == 1..Cardinality(Shelf)
Fields == {"q", "category", "level", "priceMin", "priceMax", "owner", "language"}
Values(field) ==
    CASE field = "q" -> Texts
      [] field = "category" -> Topics
      [] field = "level" -> Levels
      [] field \in {"priceMin", "priceMax"} -> Fees
      [] field = "owner" -> Owners
      [] field = "language" -> Languages

\* A visitor fills in up to two fields (a bound).
Filters ==
    LET Asked(field) == Values(field) \cup {Anything} IN
    UNION {{[[field \in Fields |-> Anything] EXCEPT ![a] = v, ![b] = w] :
                v \in Asked(a), w \in Asked(b)} : a \in Fields, b \in Fields}

\* PostgreSQL is taken to compare the level, an enumeration, with a text.
Meets(c, f, field) ==
    LET wanted == f[field] IN
    \/ wanted = Anything
    \/ CASE field = "q" -> wanted \in TraitsOf[c].found
         [] field = "priceMin" -> TraitsOf[c].price >= wanted
         [] field = "priceMax" -> TraitsOf[c].price <= wanted
         [] OTHER -> TraitsOf[c][field] = wanted

\* The where of both queries, of the filters and of the similar texts.
Matches(f) == {c \in Shelf : \A field \in Fields : Meets(c, f, field)}

-----------------------------------------------------------------------------
(* The order, and a page of it *)

\* Greater values come first; similarity counts only for a text.
Weight(c, f, sort) ==
    LET t == TraitsOf[c] IN
    CASE sort = "rating" -> t.rating
      [] sort = "enrollments" -> t.students
      [] sort = "price_asc" -> -t.price
      [] sort = "price_desc" -> t.price
      [] sort = "newest" -> t.newness
      [] sort = "default" -> IF f["q"] = Anything THEN 10 * t.students + t.rating
                             ELSE 10 * t.rank + t.students

\* Nothing decides between courses of one weight.
Orders(f, sort) ==
    {s \in Injection(1..Cardinality(Matches(f)), Matches(f)) :
        \A m, n \in DOMAIN s : m < n => Weight(s[m], f, sort) >= Weight(s[n], f, sort)}

\* Fault: pages are counted from zero.
SkipPages(page, limit) == page * limit
Skip(page, limit) == (page - 1) * limit

PageOf(order, page, limit) ==
    SubSeq(order, Skip(page, limit) + 1, Min({Skip(page, limit) + limit, Len(order)}))
LastPage(total, limit) == (total + limit - 1) \div limit

Results(f, sort, page, limit) ==
    {[courses |-> PageOf(order, page, limit), total |-> Cardinality(Matches(f)),
      pages |-> LastPage(Cardinality(Matches(f)), limit)] : order \in Orders(f, sort)}

-----------------------------------------------------------------------------
(* The cache *)

\* Only a search without these is kept, under its page.
\* Fault: the level is forgotten.
KeyedWithoutLevel == {"q", "category", "priceMin", "priceMax"}
Keyed == {"q", "category", "level", "priceMin", "priceMax"}
Keepable(f) == \A field \in Keyed : f[field] = Anything

SearchInit ==
    /\ pages = [p \in Pages |-> NoResults]
    /\ hints = [stem \in {StemOf[t] : t \in Texts} |-> NoResults]
    /\ answer = NoResults

Answered(kind, asked, cached, result) ==
    answer' = [kind |-> kind, asked |-> asked, cached |-> cached, result |-> result]

SearchCourses(f, sort, page, limit) ==
    LET asked == [filters |-> f, sort |-> sort, page |-> page, limit |-> limit] IN
    /\ answer = NoResults
    /\ IF Keepable(f) /\ pages[page] # NoResults
       THEN /\ Answered("search", asked, TRUE, pages[page])
            /\ UNCHANGED pages
       ELSE \E result \in Results(f, sort, page, limit) :
              /\ Answered("search", asked, FALSE, result)
              /\ pages' = IF Keepable(f) THEN [pages EXCEPT ![page] = result] ELSE pages
    /\ UNCHANGED hints

GetSearchSuggestions(t) ==
    LET stem == StemOf[t]
        found == {c \in Shelf : t \in TraitsOf[c].titled} IN
    /\ answer = NoResults
    /\ IF hints[stem] # NoResults
       THEN Answered("suggestions", t, TRUE, hints[stem]) /\ UNCHANGED hints
       ELSE /\ Answered("suggestions", t, FALSE, found)
            /\ hints' = [hints EXCEPT ![stem] = found]
    /\ UNCHANGED pages

TakeAnswer ==
    /\ answer # NoResults
    /\ answer' = NoResults
    /\ UNCHANGED <<pages, hints>>

\* The end of its time, or an update of a course, which deletes every page.
ForgetPages(P) ==
    /\ answer = NoResults
    /\ pages' = [p \in Pages |-> IF p \in P THEN NoResults ELSE pages[p]]
    /\ UNCHANGED <<hints, answer>>
ForgetHint(stem) ==
    /\ answer = NoResults
    /\ hints' = [hints EXCEPT ![stem] = NoResults]
    /\ UNCHANGED <<pages, answer>>

SearchNext ==
    \/ \E f \in Filters, sort \in Sorts, page \in Pages, limit \in Limits :
           SearchCourses(f, sort, page, limit)
    \/ \E t \in Texts : GetSearchSuggestions(t)
    \/ TakeAnswer
    \/ \E P \in {{p} : p \in Pages} \cup {Pages} : ForgetPages(P)
    \/ \E stem \in DOMAIN hints : ForgetHint(stem)

SearchSpec == SearchInit /\ [][SearchNext]_searchVars

-----------------------------------------------------------------------------
(* Properties *)

\* A kept page is as good as a new one for what its key tells apart: every
\* course shown meets the text, the category, the level and the prices asked
\* for.  Owner, language, order and limit are those of whoever filled the page;
\* an answer from the database has them right, and the number of all matches.
AnswersFit ==
    answer # NoResults /\ answer.kind = "search" =>
        LET f == answer.asked.filters
            shown == answer.result.courses IN
        /\ \A n \in DOMAIN shown : \A field \in Fields \ {"owner", "language"} :
               Meets(shown[n], f, field)
        /\ answer.cached \/
             /\ Range(shown) \subseteq Matches(f) /\ Len(shown) <= answer.asked.limit
             /\ answer.result.total = Cardinality(Matches(f))
             /\ answer.asked.page < answer.result.pages => Len(shown) = answer.asked.limit

\* Who turns the pages meets every match once, on the pages there are said to
\* be, if no two tie: of those that do one may come twice and the other never.
PagesCover ==
    answer # NoResults /\ answer.kind = "search" /\ ~answer.cached =>
        LET a == answer.asked
            found(p) == {Range(r.courses) : r \in Results(a.filters, a.sort, p, a.limit)}
            all == 1..answer.result.pages IN
        Cardinality(Orders(a.filters, a.sort)) = 1 =>
            \A c \in Matches(a.filters) :
                Cardinality({p \in all : \E S \in found(p) : c \in S}) = 1

\* A suggestion has the text in its title, or another that begins as long.
HintsFit ==
    answer # NoResults /\ answer.kind = "suggestions" =>
        \A c \in answer.result : \E t \in TraitsOf[c].titled : StemOf[t] = StemOf[answer.asked]

\* Every search gets what was asked for, as far as its key can tell.
SearchIsSound == AnswersFit /\ PagesCover /\ HintsFit
===================================================================================
