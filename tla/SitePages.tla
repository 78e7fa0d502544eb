------------------------------ MODULE SitePages ------------------------------
(***************************************************************************)
(* What the site shows of content kept elsewhere: the lists of albums and  *)
(* posts on the home page (src/pages/views.py) and in the sitemaps         *)
(* (src/config/sitemaps.py, src/photos/sitemaps.py), the badge of the      *)
(* latest Lighthouse audit, and the search index, which a command rebuilds *)
(* row by row (src/utils/management/commands/rebuild_search_index.py).     *)
(*                                                                         *)
(* Lists are cached in layers: a sitemap's page is cached, and so is the   *)
(* list of items it is rendered from.  Nothing that changes content clears *)
(* a cache or the index; the nightly task that asks for the sitemaps       *)
(* (src/pages/tasks.py) names a host that is not allowed, and is refused   *)
(* (src/config/domain_routing.py).  One album with a photo, one post, one  *)
(* book and one project stand for all.                                     *)
(***************************************************************************)
EXTENDS Naturals, Sequences, FiniteSets, SequencesExt

CONSTANTS
    Shown,      \* the layers that are asked for
    TTL,        \* TTL[l]: the ticks for which layer l is kept
    Visitor,    \* requests at once
    Command,    \* runs of rebuild_search_index at once
    None,       \* nothing in progress
    AuditRetries, \* the task's max_retries
    MaxEvents   \* bound: an audit counts three, an album's edit two, others one

Layer == {"albums", "posts", "sitemap-albums", "sitemap-posts",
          "home-albums", "home-posts", "badge"}

\* The parts of the index in the order of "all".
Parts == <<"post", "photos", "albums", "book", "project">>

\* A run of rebuild_search_index.
Rebuild == [todo : Seq(Range(Parts)), at : 0..2, step : {"find", "insert", "vector"},
            row : Nat]

ASSUME ConstantAssumption ==
    /\ Shown \subseteq Layer /\ TTL \in [Layer -> Nat \ {0}]
    /\ {AuditRetries, MaxEvents} \subseteq Nat /\ None \notin Rebuild

VARIABLES
    gallery,   \* the album: "none", "private" or "public"
    post,      \* the post's version, 0 when there is none
    audits,    \* rows of LighthouseAudit
    since,     \* since[s]: ticks since source s changed, as far as it matters
    cache,     \* Redis: the layers kept, and since when
    visit,     \* visit[w]: a request for a layer that is not kept, or None
    audit,     \* the task run_lighthouse_audit, or None
    rows,      \* the rows of SearchableContent by their ids
    command,   \* command[c]: what it has left to do, or None
    twins,     \* history: items that two commands were to insert at once
    cut,       \* history: rows whose command died before their vector
    events

listVars == <<since, cache, visit>>
indexVars == <<rows, command, twins, cut>>
pagesVars == <<gallery, post, audits, audit, listVars, indexVars, events>>

Event(cost) == events + cost <= MaxEvents /\ events' = events + cost

-----------------------------------------------------------------------------
(* Cached lists.                                                            *)

Source(l) ==
    CASE l \in {"albums", "sitemap-albums", "home-albums"} -> "gallery"
      [] l \in {"posts", "sitemap-posts", "home-posts"} -> "post"
      [] l = "badge" -> "audits"

\* The list that a sitemap's page is rendered from.
ItemsOf(l) ==
    CASE l = "sitemap-albums" -> "albums"
      [] l = "sitemap-posts" -> "posts"
      [] OTHER -> l

IsPage(l) == ItemsOf(l) # l

\* What a layer shows when it is made afresh: whether the album or the post is
\* listed, or which audit is the latest.
Truth(l) ==
    CASE Source(l) = "gallery" -> gallery = "public"
      [] Source(l) = "post" -> post # 0
      [] Source(l) = "audits" -> audits

\* The home page takes an empty list of albums for none.
Kept(l) == l \in DOMAIN cache /\ (l = "home-albums" => cache[l].value)

Put(l, value) ==
    cache' = [k \in DOMAIN cache \cup {l} |->
                IF k = l THEN [value |-> value, age |-> 0] ELSE cache[k]]

Answer(w, request) == visit' = [visit EXCEPT ![w] = request]

Renewed(l) == [cache EXCEPT ![l].age = 0]

\* What is kept is answered as it is, and not stored again.
AfterHit(l) == cache

\* The index of the sitemaps asks for the lists, a section for its page.
Visit(w, l) ==
    /\ visit[w] = None
    /\ \/ Kept(l) /\ cache' = AfterHit(l) /\ UNCHANGED visit
       \/ /\ ~Kept(l) /\ IsPage(l) /\ Kept(ItemsOf(l))
          /\ cache' = AfterHit(ItemsOf(l))
          /\ Answer(w, [layer |-> l, value |-> cache[ItemsOf(l)].value,
                        step |-> "store"])
       \/ /\ ~Kept(l) /\ ~Kept(ItemsOf(l))
          /\ Answer(w, [layer |-> l, value |-> Truth(l),
                        step |-> IF IsPage(l) THEN "items" ELSE "store"])
          /\ UNCHANGED cache
    /\ UNCHANGED <<gallery, post, audits, audit, since, indexVars, events>>

Home(w) == \E l \in Shown \cap {"home-albums", "home-posts"} : Visit(w, l)

Sitemap(w) ==
    \E l \in Shown \cap {"albums", "posts", "sitemap-albums", "sitemap-posts"} :
        Visit(w, l)

Badge(w) == "badge" \in Shown /\ Visit(w, "badge")

StoreItems(w) ==
    /\ visit[w] # None /\ visit[w].step = "items"
    /\ Put(ItemsOf(visit[w].layer), visit[w].value)
    /\ Answer(w, [visit[w] EXCEPT !.step = "store"])
    /\ UNCHANGED <<gallery, post, audits, audit, since, indexVars, events>>

\* Without an audit the badge is a 404, which is not kept.
Store(w) ==
    /\ visit[w] # None /\ visit[w].step = "store"
    /\ IF visit[w].layer = "badge" /\ visit[w].value = 0 THEN UNCHANGED cache
       ELSE Put(visit[w].layer, visit[w].value)
    /\ Answer(w, None)
    /\ UNCHANGED <<gallery, post, audits, audit, since, indexVars, events>>

\* Ticks in which a layer may show what was before a change.
Stale(l) == IF IsPage(l) THEN TTL[ItemsOf(l)] + TTL[l] - 1 ELSE TTL[l]

Longest(s) ==
    LET staleness == {Stale(l) : l \in {l \in Layer : Source(l) = s}}
    IN  CHOOSE n \in staleness : \A m \in staleness : m <= n

Changed(s) == since' = [since EXCEPT ![s] = 0]

\* A request and a command end within a tick.
Tick ==
    /\ \A w \in Visitor : visit[w] = None
    /\ \A c \in Command : command[c] = None
    /\ cache' = [l \in {l \in DOMAIN cache : cache[l].age + 1 < TTL[l]} |->
                    [cache[l] EXCEPT !.age = @ + 1]]
    /\ since' = [s \in DOMAIN since |->
                    IF since[s] < Longest(s) THEN since[s] + 1 ELSE since[s]]
    /\ UNCHANGED <<gallery, post, audits, visit, audit, indexVars, events>>

-----------------------------------------------------------------------------
(* Content.                                                                 *)

\* The admin adds, opens, closes or deletes the album.
EditAlbum(state) ==
    /\ Event(2) /\ gallery # state
    /\ gallery' = state
    /\ Changed("gallery")
    /\ UNCHANGED <<post, audits, audit, cache, visit, indexVars>>

\* A deploy adds, changes or removes the post.
DeployPost(version) ==
    /\ Event(1) /\ post # version
    /\ post' = version
    /\ Changed("post")
    /\ UNCHANGED <<gallery, audits, audit, cache, visit, indexVars>>

-----------------------------------------------------------------------------
(* The Lighthouse audit.                                                    *)

RunLighthouseAudit ==
    /\ audit = None /\ Event(3)
    /\ audit' = [step |-> "native", retries |-> 0]
    /\ UNCHANGED <<gallery, post, audits, listVars, indexVars>>

Raise ==
    audit' = IF audit.retries < AuditRetries
             THEN [step |-> "native", retries |-> audit.retries + 1]
             ELSE None

\* Lighthouse reports, or fails, and @lhci/cli is tried; a timeout of either
\* is an error at once.
RunTool ==
    /\ audit # None /\ audit.step \in {"native", "fallback"}
    /\ \/ audit' = [audit EXCEPT !.step = "report"]
       \/ audit.step = "native" /\ audit' = [audit EXCEPT !.step = "fallback"]
       \/ Raise
    /\ UNCHANGED <<gallery, post, audits, listVars, indexVars, events>>

\* A report without one of its scores is an error.
StoreAudit ==
    /\ audit # None /\ audit.step = "report"
    /\ \/ audits' = audits + 1 /\ audit' = None /\ Changed("audits")
       \/ Raise /\ UNCHANGED <<audits, since>>
    /\ UNCHANGED <<gallery, post, cache, visit, indexVars, events>>

-----------------------------------------------------------------------------
(* The search index.                                                        *)

RowsOf(item) == {i \in DOMAIN rows : rows[i].item = item}

Part(c) == Head(command[c].todo)

Go(c, step, id) == command' = [command EXCEPT ![c].step = step, ![c].row = id]

Onward(c) == [command EXCEPT ![c].todo = Tail(@), ![c].step = "find", ![c].row = 0]

Doing(c, step) ==
    command[c] # None /\ command[c].todo # <<>> /\ command[c].step = step

\* All parts, or one of them; without a post there is none to find.
Todo(part) ==
    CASE part = "all" -> IF post # 0 THEN Parts ELSE Tail(Parts)
      [] part = "post" /\ post = 0 -> <<>>
      [] OTHER -> <<part>>

\* --clear empties the index whatever is rebuilt: the rows at which others are
\* at work are gone, and stand as row 0.  A command reads the posts of
\* the release that it was started in.
RebuildSearchIndex(c, part, clear) ==
    /\ command[c] = None /\ Event(1)
    /\ LET new == [todo |-> Todo(part), at |-> post, step |-> "find", row |-> 0]
       IN  IF clear
           THEN /\ rows' = <<>> /\ cut' = {}
                /\ command' = [d \in Command |->
                                 IF d = c THEN new
                                 ELSE IF command[d] = None THEN None
                                 ELSE [command[d] EXCEPT !.row = 0]]
           ELSE /\ command' = [command EXCEPT ![c] = new]
                /\ UNCHANGED <<rows, cut>>
    /\ UNCHANGED <<gallery, post, audits, audit, listVars, twins>>

\* Photos and albums keep their vectors themselves.  That of a photo is computed
\* from a title and a description, which photos no longer have: the first photo
\* ends the command.
RebuildGallery(c) ==
    /\ Doing(c, "find") /\ Part(c) \in {"photos", "albums"}
    /\ command' = IF Part(c) = "photos" /\ gallery # "none"
                  THEN [command EXCEPT ![c] = None] ELSE Onward(c)
    /\ UNCHANGED <<gallery, post, audits, audit, listVars, rows, twins, cut, events>>

ContentOf(c) == IF Part(c) = "post" THEN command[c].at ELSE 1

\* Another command has found no row of the item, and not inserted it yet.
Contended(c) ==
    \E d \in Command \ {c} : Doing(d, "insert") /\ Part(d) = Part(c)

\* update_or_create finds one row and saves it, or none, or several: a post or a
\* book is then passed over, a project ends the command.
Find(c) ==
    /\ Doing(c, "find") /\ Part(c) \notin {"photos", "albums"}
    /\ twins' = IF RowsOf(Part(c)) = {} /\ Contended(c) THEN twins \cup {Part(c)}
                ELSE twins
    /\ \/ RowsOf(Part(c)) = {} /\ Go(c, "insert", 0) /\ UNCHANGED rows
       \/ \E i \in RowsOf(Part(c)) :
            /\ RowsOf(Part(c)) = {i}
            /\ rows' = [rows EXCEPT ![i].content = ContentOf(c)]
            /\ Go(c, "vector", i)
       \/ /\ Cardinality(RowsOf(Part(c))) > 1
          /\ command' = IF Part(c) = "project" THEN [command EXCEPT ![c] = None]
                        ELSE Onward(c)
          /\ UNCHANGED rows
    /\ UNCHANGED <<gallery, post, audits, audit, listVars, cut, events>>

NewId == CHOOSE i \in 1..Cardinality(DOMAIN rows) + 1 : i \notin DOMAIN rows

Insert(c) ==
    /\ Doing(c, "insert")
    /\ rows' = [i \in DOMAIN rows \cup {NewId} |->
                    IF i = NewId THEN [item |-> Part(c), content |-> ContentOf(c),
                                       vector |-> 0]
                    ELSE rows[i]]
    /\ Go(c, "vector", NewId)
    /\ UNCHANGED <<gallery, post, audits, audit, listVars, twins, cut, events>>

VectorFromMemory(c) == ContentOf(c)

\* update_search_vector computes the vector from the row's columns.
VectorFor(c) == rows[command[c].row].content

UpdateSearchVector(c) ==
    /\ Doing(c, "vector")
    /\ rows' = IF command[c].row \in DOMAIN rows
               THEN [rows EXCEPT ![command[c].row].vector = VectorFor(c)]
               ELSE rows
    /\ command' = Onward(c)
    /\ UNCHANGED <<gallery, post, audits, audit, listVars, twins, cut, events>>

\* Without words everything is listed.  The words of a post are found by its
\* vector; those of a book and a project are compared with the row itself, too.
SearchBlogPosts(words) == {i \in RowsOf("post") : words \in {None, rows[i].vector}}

SearchProjects(words) ==
    {i \in RowsOf("project") : words \in {None, rows[i].vector, rows[i].content}}

SearchBooks(words) ==
    {i \in RowsOf("book") : words \in {None, rows[i].vector, rows[i].content}}

SearchView(words, type) ==
    UNION {IF type \in {"all", "blog"} THEN SearchBlogPosts(words) ELSE {},
           IF type \in {"all", "projects"} THEN SearchProjects(words) ELSE {},
           IF type \in {"all", "books"} THEN SearchBooks(words) ELSE {}}

Complete(c) ==
    /\ command[c] # None /\ command[c].todo = <<>>
    /\ command' = [command EXCEPT ![c] = None]
    /\ UNCHANGED <<gallery, post, audits, audit, listVars, rows, twins, cut, events>>

Die(c) ==
    /\ command[c] # None /\ Event(1)
    /\ command' = [command EXCEPT ![c] = None]
    /\ cut' = IF Doing(c, "vector") THEN cut \cup {command[c].row} ELSE cut
    /\ UNCHANGED <<gallery, post, audits, audit, listVars, rows, twins>>

-----------------------------------------------------------------------------

PagesInit ==
    /\ gallery \in {"none", "private", "public"} /\ post = 1 /\ audits = 0
    /\ since = [s \in {"gallery", "post", "audits"} |-> Longest(s)]
    /\ cache = <<>> /\ visit = [w \in Visitor |-> None] /\ audit = None
    /\ rows = <<>> /\ command = [c \in Command |-> None]
    /\ twins = {} /\ cut = {} /\ events = 0

PagesNext ==
    \/ \E w \in Visitor :
        \/ Home(w) \/ Sitemap(w) \/ Badge(w)
        \/ StoreItems(w) \/ Store(w)
    \/ Tick
    \/ \E state \in {"none", "private", "public"} : EditAlbum(state)
    \/ \E version \in 0..2 : DeployPost(version)
    \/ RunLighthouseAudit \/ RunTool \/ StoreAudit
    \/ \E c \in Command :
        \/ \E part \in Range(Parts) \cup {"all"}, clear \in BOOLEAN :
             RebuildSearchIndex(c, part, clear)
        \/ RebuildGallery(c) \/ Find(c) \/ Insert(c) \/ UpdateSearchVector(c)
        \/ Complete(c) \/ Die(c)

PagesSpec == PagesInit /\ [][PagesNext]_pagesVars

-----------------------------------------------------------------------------
(* Properties.                                                              *)

\* What can be kept for a layer: the number of the latest audit, or whether
\* the album or the post is listed.
ValueOf(l) == IF Source(l) = "audits" THEN Nat ELSE BOOLEAN

RequestFor(r) ==
    r \in [layer : Layer, value : ValueOf(r.layer), step : {"items", "store"}]

\* Every variable has its type, and nothing is kept longer than its TTL.
PagesTypeOK ==
    /\ gallery \in {"none", "private", "public"} /\ post \in 0..2 /\ audits \in Nat
    /\ since \in [{"gallery", "post", "audits"} -> Nat]
    /\ cache = [l \in DOMAIN cache |-> cache[l]]
    /\ DOMAIN cache \subseteq Layer
    /\ \A l \in DOMAIN cache :
          cache[l] \in [value : ValueOf(l), age : 0..(TTL[l] - 1)]
    /\ visit = [w \in Visitor |-> visit[w]] /\ \A w \in Visitor : visit[w] = None \/ RequestFor(visit[w])
    /\ audit \in {None} \cup [step : {"native", "fallback", "report"},
                              retries : 0..AuditRetries]
    /\ rows \in [DOMAIN rows -> [item : Range(Parts), content : 0..2, vector : 0..2]]
    /\ DOMAIN rows \subseteq Nat \ {0} /\ IsFiniteSet(DOMAIN rows)
    /\ command \in [Command -> {None} \cup Rebuild]
    /\ twins \subseteq Range(Parts) /\ cut \subseteq Nat /\ events \in 0..MaxEvents

\* An album made private, a post removed, a new audit: every page follows once
\* the list it shows has expired, and a sitemap's page, which may be rendered
\* from a list in its last moment, once both have.
ListsCatchUp ==
    \A l \in DOMAIN cache :
        since[Source(l)] >= Stale(l) => cache[l].value = Truth(l)

\* An item is listed once, unless two commands looked for it before either
\* inserted it, and what is listed is found by the words it holds now, unless its
\* vector is still to be computed or a command died before it was.
IndexIsWhole ==
    \A i \in SearchView(None, "all") :
        /\ Cardinality(RowsOf(rows[i].item)) > 1 => rows[i].item \in twins
        /\ i \notin SearchView(rows[i].content, "all") =>
             i \in cut \/ \E c \in Command : Doing(c, "vector") /\ command[c].row = i
=============================================================================
