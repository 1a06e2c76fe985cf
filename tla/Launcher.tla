------------------------------ MODULE Launcher ------------------------------
(***************************************************************************)
(* The launcher window (crates/zofi/src/launcher.rs) over its registry of  *)
(* sources: plain ones, and UnionSource, which merges its children behind  *)
(* one index space (sources/union.rs).                                     *)
(*                                                                         *)
(* The user and GPUI run on the main thread: an event handler runs to its  *)
(* end, then its effects (observer calls, deferred closures) in the order  *)
(* they were queued.  The zofi-windows thread changes the rows of its      *)
(* source at any moment, also between two reads of one handler.            *)
(***************************************************************************)
EXTENDS Integers, Sequences, FiniteSets, SequencesExt

CONSTANTS
  Registry,   \* the entries: each the sequence of its leaf sources, a union if several
  Initial,    \* the entry opened first
  Prefix,     \* leaf source -> its prefix character
  Live,       \* the leaf sources whose rows come and go
  Fixed,      \* rows of the other leaf sources
  RowId,      \* what the rows of live sources are called
  Hits,       \* row -> the queries it matches
  Rank,       \* row -> its total score (match and weight)
  Mimes,      \* row -> the mimes it was captured with
  Query,      \* texts of the input: sequences of characters
  None

Leaf == UNION {{Registry[e][c] : c \in DOMAIN Registry[e]} : e \in DOMAIN Registry}
SourceRow == RowId \cup UNION {{Fixed[l][i] : i \in DOMAIN Fixed[l]} : l \in DOMAIN Fixed}

ASSUME LauncherAssumption ==
  /\ Registry \in Seq(Seq(Leaf) \ {<<>>}) /\ Initial \in DOMAIN Registry
  /\ DOMAIN Prefix = Leaf /\ Live \subseteq Leaf
  /\ Fixed \in [Leaf \ Live -> Seq(SourceRow)] /\ Rank \in [SourceRow -> Int]
  /\ DOMAIN Hits = SourceRow /\ DOMAIN Mimes = SourceRow
  /\ \A r \in SourceRow : Len(Mimes[r]) \in Nat
  /\ <<>> \in Query
  /\ None \notin SourceRow \cup Leaf \cup Nat \cup [leaf : Leaf, key : SourceRow \cup {None}]

VARIABLES
  leafRows,     \* leaf source -> its rows, in the order of its Vec
  pulse,        \* a pulse waits for the launcher's task
  content,      \* TextInput::content
  effects,      \* effects GPUI has queued: "notify" the observer, "clear" the input
  last_query,
  active_slot,  \* `active` and `sub_filter` are functions of it
  filtered,
  routing,      \* UnionSource::routing
  selected,     \* items.selected
  left_pane, mime_cache, mime_selected, peek_active,
  drawn,        \* the last frame: which pane, or "peek", and how many rows
  confirming,   \* the MRU record of a confirm under way
  running,
  by,           \* history: the query `filtered` was computed for
  activated     \* history: what was activated, and under which record

srcVars   == <<leafRows, pulse>>
inputVars == <<content, effects, last_query>>
listVars  == <<filtered, routing, by>>
paneVars  == <<left_pane, mime_cache, mime_selected>>
launcherVars == <<srcVars, inputVars, active_slot, listVars, selected, paneVars,
          peek_active, drawn, confirming, running, activated>>

-----------------------------------------------------------------------------
(* The switcher bar (build_bar_slots): a union shows one slot for all of   *)
(* its children (child 0), then one for each; a plain source shows one.    *)

IsUnion(e) == Len(Registry[e]) > 1

Slot ==
  UNION {{[reg |-> e, child |-> c] : c \in IF IsUnion(e) THEN 0..Len(Registry[e]) ELSE {0}}
           : e \in DOMAIN Registry}

Entry(k) == k.reg

(* active_indices: the children a slot shows.                              *)
Children(k) == IF k.child = 0 THEN DOMAIN Registry[Entry(k)] ELSE {k.child}

LeafOf(e, c) == Registry[e][c]

(* build_prefix_map: a union has no prefix of its own; a later slot wins.  *)
SlotPrefix(k) ==
  IF IsUnion(Entry(k))
    THEN IF k.child = 0 THEN None ELSE Prefix[LeafOf(Entry(k), k.child)]
    ELSE Prefix[LeafOf(Entry(k), 1)]

PrefixSlots(ch) == {k \in Slot : SlotPrefix(k) = ch}
PrefixSlot(ch) ==
  CHOOSE k \in PrefixSlots(ch) :
    \A j \in PrefixSlots(ch) : j.reg < k.reg \/ (j.reg = k.reg /\ j.child <= k.child)

DefaultSlot == [reg |-> Initial, child |-> 0]

(* score_and_route: total score first, then child, then the child's order. *)
Route == [child : Nat \ {0}, inner : Nat \ {0}]

Matches(k, q) ==
  {r \in UNION {{[child |-> c, inner |-> i] : i \in DOMAIN leafRows[LeafOf(Entry(k), c)]}
                  : c \in Children(k)} :
     q \in Hits[leafRows[LeafOf(Entry(k), r.child)][r.inner]]}

Score(k, r) == Rank[leafRows[LeafOf(Entry(k), r.child)][r.inner]]

Before(k, r, s) ==
  \/ Score(k, r) > Score(k, s)
  \/ Score(k, r) = Score(k, s) /\ r.child < s.child
  \/ Score(k, r) = Score(k, s) /\ r.child = s.child /\ r.inner < s.inner

Routed(k, q) ==
  CHOOSE list \in [1..Cardinality(Matches(k, q)) -> Matches(k, q)] :
    \A m, n \in DOMAIN list : m < n => Before(k, list[m], list[n])

(* Source::filter of the entry of slot k: a union returns indices into its *)
(* routing table, rebuilt here; a plain source those into its own rows.    *)
Filter(k, q) ==
  LET found == Routed(k, q) IN
    /\ by' = q
    /\ IF IsUnion(Entry(k))
         THEN /\ routing' = found
              /\ filtered' = [n \in DOMAIN found |-> n]
         ELSE /\ filtered' = [n \in DOMAIN found |-> found[n].inner]
              /\ UNCHANGED routing

(* What the n-th row of the list leads to in the active entry: the leaf    *)
(* and, if it is still there, the row.                                     *)
RowAt(n) ==
  LET r == IF IsUnion(Entry(active_slot)) THEN routing[filtered[n]]
                                          ELSE [child |-> 1, inner |-> filtered[n]]
      l == LeafOf(Entry(active_slot), r.child)
  IN [leaf |-> l, row |-> IF r.inner \in DOMAIN leafRows[l] THEN leafRows[l][r.inner] ELSE None]

Picked == RowAt(selected + 1)
HasPicked == selected < Len(filtered)

-----------------------------------------------------------------------------
LauncherType ==
  /\ leafRows \in [Leaf -> Seq(SourceRow)]
  /\ pulse \in BOOLEAN
  /\ content \in Query /\ last_query \in Query /\ by \in Query
  /\ effects \in Seq({"notify", "clear"})
  /\ active_slot \in Slot
  /\ filtered \in Seq(Nat \ {0}) /\ routing \in Seq(Route)
  /\ selected \in Nat /\ mime_selected \in Nat
  /\ drawn \in [pane : {"items", "mimes", "peek"}, rows : Nat]
  /\ left_pane \in {"items", "mimes"}
  /\ mime_cache \in {<<>>} \cup {Mimes[r] : r \in SourceRow}
  /\ peek_active \in BOOLEAN /\ running \in BOOLEAN
  /\ confirming \in {None} \cup [leaf : Leaf, key : SourceRow \cup {None}]
  /\ activated = None \/ activated.leaf \in Leaf

LauncherInit ==
  /\ leafRows = [l \in Leaf |-> IF l \in Live THEN <<>> ELSE Fixed[l]]
  /\ pulse = FALSE
  /\ content = <<>> /\ effects = <<>> /\ last_query = <<>> /\ by = <<>>
  /\ active_slot = DefaultSlot
  /\ LET found == Routed(DefaultSlot, <<>>) IN
       IF IsUnion(Initial)
         THEN routing = found /\ filtered = [n \in DOMAIN found |-> n]
         ELSE routing = <<>> /\ filtered = [n \in DOMAIN found |-> found[n].inner]
  /\ selected = 0 /\ drawn = [pane |-> "items", rows |-> 0]
  /\ left_pane = "items" /\ mime_cache = <<>> /\ mime_selected = 0
  /\ peek_active = FALSE /\ confirming = None /\ running = TRUE
  /\ activated = None

-----------------------------------------------------------------------------
(* The zofi-windows thread (see ToplevelFeed): rows are pushed, changed in *)
(* place (which shows in no index) or taken out, and a pulse follows.      *)

RowsChange(l) ==
  \/ \E r \in RowId : (\A i \in DOMAIN leafRows[l] : leafRows[l][i] # r)
                        /\ leafRows' = [leafRows EXCEPT ![l] = Append(@, r)]
  \/ \E i \in DOMAIN leafRows[l] : leafRows' = [leafRows EXCEPT ![l] = RemoveAt(@, i)]
  \/ UNCHANGED leafRows

SourceGrows ==
  /\ running
  /\ \E l \in Live : RowsChange(l)
  /\ pulse' = TRUE
  /\ UNCHANGED <<inputVars, active_slot, listVars, selected, paneVars, peek_active,
                 drawn, confirming, running, activated>>

-----------------------------------------------------------------------------
(* The main thread.  An event is handled when the effects of the one       *)
(* before it are flushed.                                                  *)

Idle == running /\ effects = <<>> /\ confirming = None

(* The peek overlay draws neither the input nor the tabs.                  *)
Listing == Idle /\ drawn.pane # "peek"

(* cx.notify on the input queues one observer call until it has run.       *)
Notify == IF \E i \in DOMAIN effects : effects[i] = "notify"
            THEN effects ELSE Append(effects, "notify")

ResetPanes ==
  /\ selected' = 0 /\ mime_selected' = 0
  /\ left_pane' = "items" /\ mime_cache' = <<>>

(* Mutant: the list is left as it was when only the sub-filter changes.    *)
SwitchToUnfiltered(k, q) ==
  /\ active_slot' = k
  /\ IF Entry(k) = Entry(active_slot) THEN UNCHANGED listVars ELSE Filter(k, q)
  /\ ResetPanes

(* switch_to_slot of another slot, then finish_slot_switch: the query is   *)
(* kept inside one entry; last_query is reset and the input cleared later. *)
SwitchTo(k, q) ==
  /\ active_slot' = k
  /\ Filter(k, IF Entry(k) # Entry(active_slot) THEN <<>> ELSE q)
  /\ ResetPanes

UpdateFilter(q) == Filter(active_slot, q) /\ ResetPanes

(* Typing, deleting, pasting: any text may follow any other.               *)
Edit ==
  /\ Listing
  /\ content' \in Query
  /\ effects' = Notify
  /\ UNCHANGED <<srcVars, last_query, active_slot, listVars, selected, paneVars,
                 peek_active, drawn, confirming, running, activated>>

(* on_input_change, the observer: a lone prefix character switches slots,  *)
(* any other text filters.                                                 *)
Observe ==
  /\ running /\ effects # <<>> /\ Head(effects) = "notify"
  /\ IF content = last_query
       THEN /\ effects' = Tail(effects)
            /\ UNCHANGED <<last_query, active_slot, listVars, selected, paneVars>>
     ELSE IF Len(content) = 1 /\ PrefixSlots(content[1]) # {}
       THEN LET k == PrefixSlot(content[1]) IN
              IF k = active_slot
                THEN /\ effects' = Tail(effects) /\ last_query' = content
                     /\ UNCHANGED <<active_slot, listVars, selected, paneVars>>
                ELSE /\ SwitchTo(k, content)
                     /\ effects' = Append(Tail(effects), "clear")
                     /\ last_query' = <<>>
     ELSE /\ UpdateFilter(content)
          /\ last_query' = content /\ effects' = Tail(effects)
          /\ UNCHANGED active_slot
  /\ UNCHANGED <<srcVars, content, peek_active, drawn, confirming, running, activated>>

(* The closure finish_slot_switch defers: set_text("").                    *)
Clear ==
  /\ running /\ effects # <<>> /\ Head(effects) = "clear"
  /\ content' = <<>>
  /\ effects' = IF \E i \in 2..Len(effects) : effects[i] = "notify"
                  THEN Tail(effects) ELSE Append(Tail(effects), "notify")
  /\ UNCHANGED <<srcVars, last_query, active_slot, listVars, selected, paneVars,
                 peek_active, drawn, confirming, running, activated>>

(* apply_slot (a tab, Ctrl+Tab, Ctrl+Shift+Tab) and on_empty_backspace.    *)
ApplySlot(k) ==
  /\ Listing /\ k # active_slot
  /\ SwitchTo(k, content)
  /\ last_query' = <<>> /\ effects' = <<"clear">>
  /\ UNCHANGED <<srcVars, content, peek_active, drawn, confirming, running, activated>>

EmptyBackspace == content = <<>> /\ ApplySlot(DefaultSlot)

(* Mutant: the cursor is not clamped.                                      *)
RefilterNoClamp ==
  /\ Idle /\ pulse
  /\ pulse' = FALSE
  /\ Filter(active_slot, content)
  /\ UNCHANGED <<leafRows, inputVars, active_slot, selected, paneVars, peek_active, drawn,
                 confirming, running, activated>>

(* wire_pulse: filter with the text of the input, keep the cursor.         *)
Refilter ==
  /\ Idle /\ pulse
  /\ pulse' = FALSE
  /\ Filter(active_slot, content)
  /\ selected' = IF selected < Len(filtered') THEN selected
                 ELSE IF filtered' = <<>> THEN 0 ELSE Len(filtered') - 1
  /\ UNCHANGED <<leafRows, inputVars, active_slot, paneVars, peek_active, drawn,
                 confirming, running, activated>>

Render ==
  /\ Idle
  /\ drawn' = IF peek_active THEN [pane |-> "peek", rows |-> 0]
              ELSE [pane |-> left_pane,
                    rows |-> IF left_pane = "items" THEN Len(filtered) ELSE Len(mime_cache)]
  /\ UNCHANGED <<srcVars, inputVars, active_slot, listVars, selected, paneVars,
                 peek_active, confirming, running, activated>>

Down(n, len) == IF len = 0 THEN n ELSE IF n + 1 < len THEN n + 1 ELSE len - 1
Up(n) == IF n = 0 THEN 0 ELSE n - 1

Move ==
  /\ Idle
  /\ IF left_pane = "items"
       THEN /\ selected' \in {Up(selected), Down(selected, Len(filtered))}
            /\ mime_selected' = 0
       ELSE /\ mime_selected' \in {Up(mime_selected), Down(mime_selected, Len(mime_cache))}
            /\ UNCHANGED selected
  /\ UNCHANGED <<srcVars, inputVars, active_slot, listVars, left_pane, mime_cache,
                 peek_active, drawn, confirming, running, activated>>

(* toggle_mime_pane, with refresh_mime_cache.                              *)
ToggleMimePane ==
  /\ Listing
  /\ LET cache == IF HasPicked /\ Picked.row # None THEN Mimes[Picked.row] ELSE <<>>
         open  == left_pane = "items" /\ Len(cache) >= 2
     IN /\ left_pane' = IF open THEN "mimes" ELSE "items"
        /\ mime_cache' = IF open THEN cache ELSE <<>>
        /\ mime_selected' = IF open THEN 0 ELSE mime_selected
  /\ UNCHANGED <<srcVars, inputVars, active_slot, listVars, selected, peek_active,
                 drawn, confirming, running, activated>>

(* toggle_peek: windows can be peeked at, and a union that has them can.   *)
CanPeek == \E c \in DOMAIN Registry[Entry(active_slot)] :
             LeafOf(Entry(active_slot), c) \in Live

TogglePeek ==
  /\ Idle /\ CanPeek /\ HasPicked
  /\ peek_active' = ~peek_active
  /\ UNCHANGED <<srcVars, inputVars, active_slot, listVars, selected, paneVars, drawn,
                 confirming, running, activated>>

Dismiss ==
  /\ Idle
  /\ peek_active' = FALSE
  /\ left_pane' = IF peek_active THEN left_pane ELSE "items"
  /\ running' = (peek_active \/ left_pane = "mimes")
  /\ UNCHANGED <<srcVars, inputVars, active_slot, listVars, selected, mime_cache,
                 mime_selected, drawn, confirming, activated>>

(* copy_image hands the bytes to the daemon and quits, or says why not.    *)
CopyImage ==
  /\ Idle /\ CanPeek /\ HasPicked
  /\ running' = FALSE
  /\ UNCHANGED <<srcVars, inputVars, active_slot, listVars, selected, paneVars,
                 peek_active, drawn, confirming, activated>>

(* confirm reads the key of the picked row for the usage tracker, ...      *)
ReadKey(n, pane, m) ==
  /\ selected' = n /\ left_pane' = pane /\ mime_selected' = m
  /\ IF n < Len(filtered)
       THEN /\ confirming' = [leaf |-> RowAt(n + 1).leaf, key |-> RowAt(n + 1).row]
            /\ UNCHANGED running
       ELSE /\ running' = FALSE /\ UNCHANGED confirming
  /\ UNCHANGED <<srcVars, inputVars, active_slot, listVars, mime_cache, peek_active,
                 drawn, activated>>

Confirm == Idle /\ ReadKey(selected, left_pane, mime_selected)

(* A click confirms the clicked row of the last frame, of either list.     *)
Click ==
  /\ Listing
  /\ \E n \in 0..(drawn.rows - 1) :
       IF drawn.pane = "items" THEN ReadKey(n, "items", mime_selected)
                               ELSE ReadKey(selected, "mimes", n)

(* ... then activates what is at that index now, records and quits.        *)
Activate ==
  /\ running /\ confirming # None
  /\ activated' =
       [leaf |-> Picked.leaf, row |-> Picked.row, record |-> confirming,
        mime |-> IF left_pane = "mimes" /\ mime_selected < Len(mime_cache)
                   THEN mime_cache[mime_selected + 1] ELSE None]
  /\ confirming' = None /\ running' = FALSE
  /\ UNCHANGED <<srcVars, inputVars, active_slot, listVars, selected, paneVars,
                 peek_active, drawn>>

LauncherNext ==
  \/ SourceGrows \/ Edit \/ Observe \/ Clear \/ EmptyBackspace \/ Refilter \/ Render
  \/ \E k \in Slot : ApplySlot(k)
  \/ Move \/ ToggleMimePane \/ TogglePeek \/ Dismiss \/ CopyImage
  \/ Confirm \/ Click \/ Activate

LauncherSpec == LauncherInit /\ [][LauncherNext]_launcherVars

-----------------------------------------------------------------------------
Shows(k, l) == \E c \in Children(k) : LeafOf(Entry(k), c) = l

(* UnionSource::route never panics on "virtual index out of range"         *)
(* (union.rs:94): between handlers the indices of the list are those of    *)
(* the routing table of the active union, through slot switches, pulses    *)
(* and edits in any order.                                                 *)
RoutesInRange ==
  /\ \A n \in DOMAIN filtered :
       IsUnion(Entry(active_slot)) => filtered[n] \in DOMAIN routing
  /\ \A n \in DOMAIN filtered :
       IsUnion(Entry(active_slot)) =>
         Shows(active_slot, LeafOf(Entry(active_slot), routing[filtered[n]].child))

(* Rows may move under the list between filter, key and activation, but    *)
(* what is activated, and what the usage tracker records, always belong to *)
(* one leaf source, shown by the active slot: a click in the narrowed      *)
(* windows view never starts an application.                               *)
ActivatesFromView ==
  activated # None => /\ Shows(active_slot, activated.leaf)
                      /\ activated.record.leaf = activated.leaf

(* Once the effects are flushed, the input never holds a lone prefix       *)
(* character of a slot other than the active one, and last_query is its    *)
(* text: the observer's early return never hides a change from it.         *)
PrefixConsumed ==
  Idle => \A ch \in {Prefix[l] : l \in Leaf} : content = <<ch>> => PrefixSlot(ch) = active_slot

LastQueryAgrees == Idle => last_query = content

(* The cursor stays on a row of the list, whichever thread shrinks it.     *)
SelectionInRange ==
  running /\ confirming = None => HasPicked \/ (selected = 0 /\ filtered = <<>>)

(* The mime pane is only open over at least two mimes, the cursor on one.  *)
MimeSelectionInRange ==
  Idle /\ left_pane = "mimes" => Len(mime_cache) >= 2 /\ mime_selected < Len(mime_cache)

(* What is shown and selected agrees, whatever the order of edits, switches, *)
(* deferred resets and pulses (launcher.rs:294-505).                        *)
ViewAgrees ==
  /\ RoutesInRange /\ SelectionInRange /\ MimeSelectionInRange
  /\ PrefixConsumed /\ LastQueryAgrees

(* What source.rs:99 says of the prefix character, "switches to this       *)
(* source without the character appearing in the query": an empty input    *)
(* shows the list filtered by the empty query.                             *)
EmptyInputShowsAll == Idle /\ content = <<>> => by = <<>>
=============================================================================
