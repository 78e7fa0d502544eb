--------------------------- MODULE KnowledgeGraph ---------------------------
(***************************************************************************)
(* The knowledge graph of the blog (src/blog/knowledge_graph.py): which    *)
(* post links to which.  Requests, tasks and commands build it from the    *)
(* posts' templates and share three caches in Redis: the links of a post   *)
(* with the modification time of its file, the complete graph, and the     *)
(* neighbourhood of a post.  A daily task stores a picture of the graph in *)
(* a row identified by a hash of the graph.                                *)
(*                                                                         *)
(* Templates are part of the image of a release and change with a deploy:  *)
(* a process reads the files of the release it was started from, and       *)
(* processes of two releases share Redis while the old ones end.  The      *)
(* files of a release carry the time it was built, here its number.        *)
(***************************************************************************)
EXTENDS Naturals, Sequences, FiniteSets, SequencesExt

CONSTANTS
    Site,          \* Site[r][p]: the posts that p links to in release r
    Alias,         \* Alias[n]: the post that n is another spelling of
    Proc,          \* web processes, workers and commands
    Asked,         \* neighbourhoods asked for: <<name, depth>>
    None,          \* no work in progress
    CacheTimeout,  \* CACHE_TIMEOUT in ticks of the clock
    MaxDeploys,    \* bound: deploys
    MaxEvents      \* bound: deploys, which count twice, pictures and deaths

Release == DOMAIN Site

PostsOf(r) == DOMAIN Site[r]

Post == UNION {PostsOf(r) \cup UNION {Range(Site[r][p]) : p \in PostsOf(r)} :
                r \in Release}

Graph(r) == Site[r]

ASSUME SiteAssumption ==
    /\ Release # {} /\ Release \subseteq Nat /\ IsFiniteSet(Post)
    /\ \A r \in Release : Site[r] \in [PostsOf(r) -> Seq(Post)]
    /\ Alias \in [DOMAIN Alias -> Post] /\ DOMAIN Alias \cap Post = {}
    /\ Asked \subseteq (Post \cup DOMAIN Alias) \X Nat

ASSUME GraphAssumption ==
    CacheTimeout \in Nat \ {0} /\ {MaxDeploys, MaxEvents} \subseteq Nat

VARIABLES
    release,   \* the release whose image new processes run
    cache,     \* Redis: what it holds under which key, and since when
    job,       \* job[w]: the graph that w builds, or None
    rows,      \* hashes of KnowledgeGraphScreenshot, last updated last
    files,     \* the hashes whose picture is stored
    since,     \* ticks since the last deploy, up to Long
    unsettled, \* history: that deploy went back, or found a graph being built
    torn,      \* history: hashes of two pictures at once, or one cut short
    deploys, events

shotVars == <<rows, files, torn>>
deployVars == <<release, since, unsettled, deploys>>
graphVars == <<cache, job, shotVars, deployVars, events>>

\* Two periods of the caches: a graph made from links in their last moment.
Long == 2 * CacheTimeout - 1

Event == events < MaxEvents /\ events' = events + 1

-----------------------------------------------------------------------------
(* Names and keys.                                                          *)

\* normalize_template_name.
Normal(name) == IF name \in DOMAIN Alias THEN Alias[name] ELSE name

LinksKey(p) == <<"links", p>>
MetaKey(p) == <<"meta", p>>
FullKey == <<"full">>
PostKey(name, depth) == <<"post", Normal(name), depth>>

Name == Post \cup DOMAIN Alias

\* The links of some posts, as a job or a graph holds them.
Lists == {<<>>} \cup UNION {Range(Site[r]) : r \in Release}

Links == UNION {[posts -> Lists] : posts \in SUBSET Post}

Job ==
    [op : {"full", "post", "shot"}, force : BOOLEAN, release : Release,
     key : {FullKey} \cup {PostKey(ask[1], ask[2]) : ask \in Asked},
     id : {"full"} \cup Name, todo : Seq(Name \X Nat), got : Links,
     step : {"next", "read", "cached", "hash", "create", "update"}]

ASSUME NoneAssumption == None \notin Job

Cached(key) == key \in DOMAIN cache
Value(key) == cache[key].value

Put(key, value) ==
    cache' = [k \in DOMAIN cache \cup {key} |->
                IF k = key THEN [value |-> value, age |-> 0] ELSE cache[k]]

Without(keys) == [k \in DOMAIN cache \ keys |-> cache[k]]

-----------------------------------------------------------------------------
(* Building a graph.                                                        *)

\* The first entry of todo, and the release that the process runs.
Current(w) == Head(job[w].todo)
FilesOf(w) == Site[job[w].release]
Building(w) == job[w] # None /\ job[w].todo # <<>>

\* _is_cache_stale without the test of modification times.
IsStaleWithoutMeta(w, name) == name \notin DOMAIN FilesOf(w) \/ ~Cached(MetaKey(name))

\* A file is found under its own spelling only.
IsCacheStale(w, name) ==
    \/ name \notin DOMAIN FilesOf(w)
    \/ ~Cached(MetaKey(name))
    \/ job[w].release > Value(MetaKey(name))

\* get_post_connections expands a post once, and not beyond the depth.
Skipped(w) ==
    /\ job[w].op = "post"
    /\ \/ Normal(Current(w)[1]) \in DOMAIN job[w].got
       \/ Current(w)[2] >= job[w].key[3]

Hit(w) ==
    LET name == Current(w)[1]
    IN  ~job[w].force /\ ~IsCacheStale(w, name) /\ Cached(LinksKey(name))

PushedFirst(todo, targets) == targets \o todo

\* to_process: a queue.
Pushed(todo, targets) == todo \o targets

\* Enter the links of the post at hand, and queue the posts they lead to.
Took(w, links) ==
    LET depth == Current(w)[2] + 1
        targets == [i \in DOMAIN links |-> <<links[i], depth>>]
    IN  [job[w] EXCEPT
            !.step = "next",
            !.got = [p \in DOMAIN @ \cup {Normal(Current(w)[1])} |->
                        IF p = Normal(Current(w)[1]) THEN links ELSE @[p]],
            !.todo = IF job[w].op = "post" THEN Pushed(Tail(@), targets) ELSE Tail(@)]

Become(w, j) == job' = [job EXCEPT ![w] = j]

Skip(w) ==
    /\ Building(w) /\ job[w].step = "next" /\ Skipped(w)
    /\ Become(w, [job[w] EXCEPT !.todo = Tail(@)])
    /\ UNCHANGED <<cache, shotVars, deployVars, events>>

\* parse_blog_post answers from the cache, which it asks for the time and for the
\* links in turn: links that go or change in between are parsed, or are newer.
UseCached(w) ==
    /\ Building(w) /\ job[w].step = "next" /\ ~Skipped(w) /\ Hit(w)
    /\ Become(w, Took(w, Value(LinksKey(Current(w)[1]))))
    /\ UNCHANGED <<cache, shotVars, deployVars, events>>

\* It reads the file, or finds none: no links then, and nothing is cached.
ReadPost(w) ==
    /\ Building(w) /\ job[w].step = "next" /\ ~Skipped(w) /\ ~Hit(w)
    /\ IF Current(w)[1] \in DOMAIN FilesOf(w)
       THEN Become(w, [job[w] EXCEPT !.step = "read"])
       ELSE Become(w, Took(w, <<>>))
    /\ UNCHANGED <<cache, shotVars, deployVars, events>>

CacheLinks(w) ==
    /\ Building(w) /\ job[w].step = "read"
    /\ Put(LinksKey(Current(w)[1]), FilesOf(w)[Current(w)[1]])
    /\ Become(w, [job[w] EXCEPT !.step = "cached"])
    /\ UNCHANGED <<shotVars, deployVars, events>>

\* The modification time of the file is cached after its links.
CacheMeta(w) ==
    /\ Building(w) /\ job[w].step = "cached"
    /\ Put(MetaKey(Current(w)[1]), job[w].release)
    /\ Become(w, Took(w, FilesOf(w)[Current(w)[1]]))
    /\ UNCHANGED <<shotVars, deployVars, events>>

\* _build_graph_structure: a node for each post parsed and each link's target.
GraphOf(id, links) ==
    [id |-> id, links |-> links,
     nodes |-> DOMAIN links \cup UNION {Range(links[p]) : p \in DOMAIN links}]

\* The node of a post bears the name it was asked by.
Finish(w) ==
    /\ job[w] # None /\ job[w].todo = <<>> /\ job[w].step = "next"
    /\ Put(job[w].key, GraphOf(job[w].id, job[w].got))
    /\ Become(w, IF job[w].op = "shot" THEN [job[w] EXCEPT !.step = "hash"] ELSE None)
    /\ UNCHANGED <<shotVars, deployVars, events>>

-----------------------------------------------------------------------------
(* Requests, tasks and commands.                                            *)

Everything ==
    LET names == SetToSeq(PostsOf(release))
    IN  [i \in DOMAIN names |-> <<names[i], 0>>]

FullJob(op, force) ==
    [op |-> op, force |-> force, release |-> release, key |-> FullKey, id |-> "full",
     todo |-> Everything, got |-> <<>>, step |-> "next"]

\* build_complete_graph; a cached graph is answered as it is.
BuildCompleteGraph(w, force) ==
    /\ job[w] = None /\ (force \/ ~Cached(FullKey))
    /\ Become(w, FullJob("full", force))
    /\ UNCHANGED <<cache, shotVars, deployVars, events>>

RebuildTask(w) == BuildCompleteGraph(w, FALSE)

\* The command deletes the complete graph.  The other keys it deletes are made
\* of dictionaries where names are meant: nothing is stored under them.
RebuildCommand(w) ==
    /\ job[w] = None /\ Cached(FullKey)
    /\ cache' = Without({FullKey})
    /\ Become(w, FullJob("full", TRUE))
    /\ UNCHANGED <<shotVars, deployVars, events>>

GetPostConnections(w, name, depth) ==
    /\ job[w] = None /\ ~Cached(PostKey(name, depth))
    /\ Become(w, [op |-> "post", force |-> FALSE, release |-> release,
                  key |-> PostKey(name, depth), id |-> name,
                  todo |-> <<<<name, 0>>>>, got |-> <<>>, step |-> "next"])
    /\ UNCHANGED <<cache, shotVars, deployVars, events>>

KnowledgeGraphApi(w) ==
    \/ \E force \in BOOLEAN : BuildCompleteGraph(w, force)
    \/ \E ask \in Asked : GetPostConnections(w, ask[1], ask[2])

\* generate_knowledge_graph_screenshot: the picture is taken, then the graph is
\* built, or found, whose hash names it.
TakeScreenshot(w) ==
    /\ job[w] = None /\ Event
    /\ Become(w, IF Cached(FullKey)
                 THEN [FullJob("shot", FALSE) EXCEPT
                         !.todo = <<>>, !.got = Value(FullKey).links, !.step = "hash"]
                 ELSE FullJob("shot", FALSE))
    /\ UNCHANGED <<cache, shotVars, deployVars>>

RowsOf(hash) == {i \in DOMAIN rows : rows[i] = hash}

\* Another picture with that hash is between its lookup and its end.
Contended(w, hash) ==
    \E v \in Proc \ {w} :
        job[v] # None /\ job[v].step \in {"create", "update"} /\ job[v].got = hash

\* get raises when several rows have the hash; the picture of the only one is
\* deleted before the new one is stored.
DeletedWith(hash) == files \ {hash}

LookUpPicture(w) ==
    LET hash == job[w].got
    IN  /\ job[w] # None /\ job[w].step = "hash"
        /\ torn' = IF Contended(w, hash) THEN torn \cup {hash} ELSE torn
        /\ \/ /\ RowsOf(hash) = {}
              /\ Become(w, [job[w] EXCEPT !.step = "create"])
              /\ UNCHANGED files
           \/ /\ Cardinality(RowsOf(hash)) = 1
              /\ Become(w, [job[w] EXCEPT !.step = "update"])
              /\ files' = DeletedWith(hash)
           \/ /\ Cardinality(RowsOf(hash)) > 1
              /\ Become(w, None)
              /\ UNCHANGED files
        /\ UNCHANGED <<cache, rows, deployVars, events>>

RowInserted(w) == Append(rows, job[w].got)

\* image.save stores the file and saves the row, which is then the latest.
RowSaved(w) ==
    IF job[w].step = "create" THEN Append(rows, job[w].got)
    ELSE Append(RemoveAt(rows, CHOOSE i \in RowsOf(job[w].got) : TRUE), job[w].got)

SaveImage(w) ==
    /\ job[w] # None /\ job[w].step \in {"create", "update"}
    /\ rows' = RowSaved(w)
    /\ files' = files \cup {job[w].got}
    /\ Become(w, None)
    /\ UNCHANGED <<cache, torn, deployVars, events>>

-----------------------------------------------------------------------------
(* Deploys, time and deaths.                                                *)

Deploy(r) ==
    /\ deploys < MaxDeploys /\ r # release
    /\ events + 2 <= MaxEvents /\ events' = events + 2
    /\ deploys' = deploys + 1
    /\ release' = r
    /\ since' = 0
    /\ unsettled' = (\/ r < release \/ \E w \in Proc : job[w] # None
                     \/ unsettled /\ since < Long)
    /\ UNCHANGED <<cache, job, shotVars>>

\* A graph is built within a tick.
Tick ==
    /\ \A w \in Proc : job[w] = None
    /\ cache' = [k \in {k \in DOMAIN cache : cache[k].age + 1 < CacheTimeout} |->
                    [cache[k] EXCEPT !.age = @ + 1]]
    /\ since' = IF since < Long THEN since + 1 ELSE since
    /\ UNCHANGED <<release, job, shotVars, unsettled, deploys, events>>

Die(w) ==
    /\ job[w] # None /\ Event
    /\ Become(w, None)
    /\ torn' = IF job[w].step = "update" THEN torn \cup {job[w].got} ELSE torn
    /\ UNCHANGED <<cache, rows, files, deployVars>>

\* The task runs the command; a retry of it is another run.
ScreenshotTask(w) == TakeScreenshot(w) \/ LookUpPicture(w) \/ SaveImage(w)

\* What the view answers: the picture of the latest row, if it can be read.
ScreenshotView ==
    CASE rows = <<>> -> "not available"
      [] rows # <<>> /\ Last(rows) \in files -> "picture"
      [] OTHER -> "failed"

-----------------------------------------------------------------------------

GraphInit ==
    /\ release \in Release /\ cache = <<>> /\ job = [w \in Proc |-> None]
    /\ rows = <<>> /\ files = {} /\ torn = {}
    /\ since = Long /\ unsettled = FALSE /\ deploys = 0 /\ events = 0

GraphNext ==
    \/ \E w \in Proc :
        \/ Skip(w) \/ UseCached(w) \/ ReadPost(w) \/ CacheLinks(w) \/ CacheMeta(w)
        \/ Finish(w)
        \/ KnowledgeGraphApi(w) \/ RebuildTask(w) \/ RebuildCommand(w)
        \/ ScreenshotTask(w) \/ Die(w)
    \/ \E r \in Release : Deploy(r)
    \/ Tick

GraphSpec == GraphInit /\ [][GraphNext]_graphVars

-----------------------------------------------------------------------------
(* Properties.                                                              *)

Holds(key, value) ==
    CASE key[1] = "links" -> key[2] \in Post /\ value \in Lists
      [] key[1] = "meta" -> key[2] \in Post /\ value \in Release
      [] OTHER -> value \in [id : {"full"} \cup Name, links : Links, nodes : SUBSET Post]

\* Every variable has its type, and nothing is cached longer than the timeout.
GraphTypeOK ==
    /\ release \in Release /\ deploys \in 0..MaxDeploys /\ events \in 0..MaxEvents
    /\ cache = [key \in DOMAIN cache |-> cache[key]]
    /\ \A key \in DOMAIN cache :
          /\ cache[key] = [value |-> Value(key), age |-> cache[key].age]
          /\ cache[key].age \in 0..(CacheTimeout - 1) /\ Holds(key, Value(key))
    /\ job \in [Proc -> {None} \cup Job]
    /\ rows \in Seq(Links) /\ files \subseteq Links /\ torn \subseteq Links
    /\ since \in 0..Long /\ unsettled \in BOOLEAN

\* Once all caches could have expired, what they hold is what the posts say.
Settled == since >= (IF unsettled THEN Long ELSE CacheTimeout)

\* A deploy shows in every answer after one period of the caches, and after two
\* when it went back to an older release or met a process of the other one:
\* links kept under a younger file's time pass for fresh, and a graph made from
\* them in their last moment lives as long again.  A name spelled differently
\* is answered with a post without links.
DeploysShowUp ==
    Settled =>
        \A key \in DOMAIN cache :
            /\ key[1] = "links" => Value(key) = Site[release][key[2]]
            /\ key[1] = "full" => Value(key).links = Graph(release)
            /\ key[1] = "post" /\ Value(key).id \notin DOMAIN Alias =>
                 \A p \in DOMAIN Value(key).links :
                    Value(key).links[p] =
                        IF p \in PostsOf(release) THEN Site[release][p] ELSE <<>>

\* The posts within the given number of links, by the links of the graph itself.
Within(links, start, distance) ==
    LET W[d \in 0..distance] ==
            IF d = 0 THEN {start}
            ELSE W[d - 1] \cup UNION {Range(links[p]) : p \in W[d - 1] \cap DOMAIN links}
    IN  W[distance]

\* A neighbourhood has expanded the posts nearer than its depth, all of them and
\* no other, and shows those as far as its depth, whatever was cached or
\* deployed while it was walked.
NeighbourhoodIsWhole ==
    \A key \in DOMAIN cache : key[1] = "post" /\ key[3] > 0 =>
        /\ DOMAIN Value(key).links = Within(Value(key).links, key[2], key[3] - 1)
        /\ Value(key).nodes = Within(Value(key).links, key[2], key[3])

\* The view never fails to read the picture of the row it shows, unless that one is
\* being replaced, was cut short, or was replaced twice at once; only two at once
\* make two rows of one hash, after which no picture of that graph can be stored.
LatestPictureIsServed ==
    /\ \A i, j \in DOMAIN rows : rows[i] = rows[j] => i = j \/ rows[i] \in torn
    /\ ScreenshotView = "failed" =>
         \/ Last(rows) \in torn
         \/ \E w \in Proc : job[w] # None /\ job[w].step = "update"
                            /\ job[w].got = Last(rows)
=============================================================================
