------------------------------ MODULE TabLayout ------------------------------
(***************************************************************************)
(* The tab workspace: the reducer of use-workspace.ts, the actions that    *)
(* the rail, its menus and the command palette dispatch to it, the undo of *)
(* App.deleteGroup, and what WorkspaceService makes of a layout that it    *)
(* saves or loads.  A group is its identifier: names, colours and whether  *)
(* it is collapsed are left out, and the rail's own settings too.          *)
(*                                                                         *)
(* When a layout is saved, and which answer counts, is in WorkspaceDraft.  *)
(***************************************************************************)
EXTENDS Integers, Sequences, FiniteSets, SequencesExt

CONSTANTS TabCount,   \* tab i is the i-th of TAB_IDS
          GroupIds,   \* the identifiers newGroupId may draw
          NoGroup,
          MaxGroups,  \* MAX_TAB_GROUPS
          MaxNotices  \* how many notices useNotifications shows at once

LastPlace == 63      \* order is at most this

ASSUME TabLayoutAssumption ==
    /\ TabCount \in 1..(LastPlace + 1) /\ MaxGroups \in Nat /\ MaxNotices \in Nat \ {0}
    /\ NoGroup \notin GroupIds

VARIABLES
    layout,   \* the renderer's copy
    notices   \* the deletions that may still be undone

layoutVars == <<layout, notices>>
-----------------------------------------------------------------------------
Tabs == 1..TabCount
GroupsOf(w) == ToSet(w.groups)
Existing(w, g) == IF g \in GroupsOf(w) THEN g ELSE NoGroup
Open(w) == {t \in Tabs : w.tabs[t].open}
(* Array.sort is stable: equal orders are told apart by TAB_IDS.           *)
Earlier(w, t, u) == \/ w.tabs[t].order < w.tabs[u].order
                    \/ w.tabs[t].order = w.tabs[u].order /\ t < u
First(w, S) == CHOOSE t \in S : \A u \in S \ {t} : Earlier(w, t, u)
Rank(w, S, t) == Cardinality({u \in S : Earlier(w, u, t)})

Region(w, t) == IF w.tabs[t].pinned THEN "pinned" ELSE w.tabs[t].group
SameRegion(w, t) == {u \in Tabs : Region(w, u) = Region(w, t)}

Edit(w, S, edit(_)) ==
    [w EXCEPT !.tabs = [t \in Tabs |-> IF t \in S THEN edit(@[t]) ELSE @[t]]]

(* Mutant: links to a group that is gone are not cleared. *)
UnlinkGoneKept(w) == w

UnlinkGone(w) ==
    Edit(w, Tabs, LAMBDA tab :
        [tab EXCEPT !.group = IF tab.pinned THEN NoGroup ELSE Existing(w, @),
                    !.previous = Existing(w, @)])

(* renormalize *)
Renormalize(w) ==
    LET u == UnlinkGone(w)
    IN  [u EXCEPT !.tabs =
            [t \in Tabs |-> [@[t] EXCEPT !.order = Rank(u, SameRegion(u, t), t)]]]

(* Array.filter: the elements at the positions in K, in their order.       *)
InOrder(K) == CHOOSE at \in [1..Cardinality(K) -> K] :
                  \A m, n \in 1..Cardinality(K) : m < n => at[m] < at[n]
Kept(s, K) == [n \in 1..Cardinality(K) |-> s[InOrder(K)[n]]]

Default == [active |-> 1, groups |-> <<>>,
            tabs |-> [t \in Tabs |-> [open |-> TRUE, pinned |-> FALSE,
                                      group |-> NoGroup, previous |-> NoGroup,
                                      order |-> t - 1]]]
-----------------------------------------------------------------------------
(* WorkspaceService.normalize *)

(* The positions where a value is for the first time. *)
Firsts(s) == {i \in DOMAIN s : \A j \in DOMAIN s : s[j] = s[i] => i <= j}

(* regionsOf.  A group that is there twice shows its tabs twice: here is   *)
(* where each is shown first.                                              *)
Section(w, t) == IF w.tabs[t].pinned THEN 0
                 ELSE IF w.tabs[t].group = NoGroup THEN Len(w.groups) + 1
                 ELSE CHOOSE i \in Firsts(w.groups) : w.groups[i] = w.tabs[t].group
Place(w, t) ==
    Cardinality({u \in Open(w) :
        \/ Section(w, u) < Section(w, t)
        \/ Section(w, u) = Section(w, t) /\ Earlier(w, u, t)})
Rail(w) == [t \in Open(w) |-> Place(w, t)]

KeepFirst(groups) == Kept(groups, Firsts(groups))

(* Links are cleared, a tab is opened if none is, ... *)
Repaired(w) ==
    LET u == [w EXCEPT !.groups = KeepFirst(@)]
        linked == Edit(u, Tabs, LAMBDA tab :
                      [tab EXCEPT
                        !.group = IF tab.pinned THEN NoGroup ELSE Existing(u, @),
                        !.previous = IF tab.pinned /\ tab.group \in GroupsOf(u)
                                     THEN tab.group ELSE Existing(u, @)])
    IN  IF Open(linked) # {} THEN linked ELSE [linked EXCEPT !.tabs[1].open = TRUE]

(* ... and the open tabs are numbered as they are in the rail. *)
Numbered(w) ==
    [w EXCEPT !.tabs = [t \in Tabs |-> IF t \in Open(w)
                                       THEN [@[t] EXCEPT !.order = Place(w, t)]
                                       ELSE @[t]],
              !.active = IF @ \in Open(w) THEN @
                         ELSE CHOOSE t \in Open(w) : \A o \in Open(w) : t <= o]

(* As a choice from a set, since TLC then computes it once. *)
Normalize(w) ==
    CHOOSE next \in {Numbered(repaired) : repaired \in {Repaired(w)}} : TRUE

(* tabWorkspaceSchema: all of it but that no group is there twice ... *)
LinksAccepted(w) ==
    /\ Len(w.groups) <= MaxGroups
    /\ \A t \in Tabs :
          /\ w.tabs[t].group \in GroupsOf(w) \cup {NoGroup}
          /\ w.tabs[t].previous \in GroupsOf(w) \cup {NoGroup}
          /\ w.tabs[t].pinned => w.tabs[t].group = NoGroup
          /\ w.tabs[t].order \in 0..LastPlace

(* ... and all of it. *)
Accepted(w) == LinksAccepted(w) /\ IsInjective(w.groups)
-----------------------------------------------------------------------------
LayoutInit == /\ layout = Default
              /\ notices = <<>>

Dispatch(w) == layout' = w /\ UNCHANGED notices

Activate(t) == t \in Open(layout) /\ Dispatch([layout EXCEPT !.active = t])

(* close and close-many: if the active tab was one of those asked for, the *)
(* first open one by order becomes active.                                 *)
Shut(closing, asked) ==
    LET shut == Edit(layout, closing, LAMBDA tab :
                    [tab EXCEPT !.open = FALSE,
                                !.previous = IF tab.group = NoGroup THEN @
                                             ELSE tab.group])
    IN  /\ Open(shut) # {}
        /\ Dispatch(Renormalize([shut EXCEPT
               !.active = IF @ \in asked THEN First(shut, Open(shut)) ELSE @]))

Close(t) == /\ t \in Open(layout) /\ ~layout.tabs[t].pinned
            /\ Shut({t}, {t})

(* The panel may include pinned tabs, which the reducer does not close.    *)
CloseMany(S) ==
    /\ S # {} /\ S \subseteq Open(layout)
    /\ Shut({t \in S : ~layout.tabs[t].pinned}, S)

Reopen(t) ==
    /\ t \notin Open(layout)
    /\ Dispatch(Renormalize(Edit(layout, {t}, LAMBDA tab :
            [tab EXCEPT !.open = TRUE, !.order = LastPlace,
                        !.group = Existing(layout, IF @ = NoGroup THEN tab.previous
                                                   ELSE @)])))

(* pin, which always toggles *)
Pin(t) ==
    /\ t \in Open(layout)
    /\ Dispatch(Renormalize(Edit(layout, {t}, LAMBDA tab :
            IF tab.pinned
            THEN [tab EXCEPT !.pinned = FALSE, !.order = LastPlace, !.previous = NoGroup,
                             !.group = Existing(layout, tab.previous)]
            ELSE [tab EXCEPT !.pinned = TRUE, !.order = LastPlace, !.group = NoGroup,
                             !.previous = tab.group])))

(* A neighbour in the region may be a closed tab. *)
Move(t, direction) ==
    LET siblings == SameRegion(layout, t)
        place(u) == Rank(layout, siblings, u)
    IN  /\ t \in Open(layout)
        /\ \E swap \in siblings :
              /\ place(swap) = place(t) + direction
              /\ Dispatch(Renormalize([layout EXCEPT
                    !.tabs[t].order = layout.tabs[swap].order,
                    !.tabs[swap].order = layout.tabs[t].order]))

(* A drop: half a place before the target, hence all orders are doubled.   *)
MoveTo(t, target) ==
    /\ t # target /\ {t, target} \subseteq Open(layout)
    /\ LET doubled == Edit(layout, Tabs, LAMBDA tab : [tab EXCEPT !.order = 2 * @])
           at == doubled.tabs[target]
       IN  Dispatch(Renormalize(Edit(doubled, {t}, LAMBDA tab :
                [tab EXCEPT !.pinned = at.pinned, !.group = at.group,
                            !.order = at.order - 1])))
-----------------------------------------------------------------------------
(* Groups *)
Unused(g) == /\ g \notin GroupsOf(layout)
             /\ \A i \in DOMAIN notices : notices[i].group # g

(* group-create, without a member or with one *)
WithGroup(w, g, members) ==
    IF Len(w.groups) >= MaxGroups THEN w
    ELSE Renormalize(Edit([w EXCEPT !.groups = Append(@, g)], members, LAMBDA tab :
            [tab EXCEPT !.pinned = FALSE, !.group = g, !.order = 0]))

GroupCreate(g, members) ==
    /\ Unused(g)
    /\ members \subseteq Open(layout) /\ Cardinality(members) <= 1
    /\ Dispatch(WithGroup(layout, g, members))

Assigned(w, t, g) ==
    Renormalize(Edit(w, {t} \cap Open(w), LAMBDA tab :
        [tab EXCEPT !.pinned = FALSE, !.group = g, !.previous = NoGroup,
                    !.order = LastPlace]))

GroupAssign(t, g) ==
    /\ g \in GroupsOf(layout) /\ layout.tabs[t].group # g
    /\ ~layout.tabs[t].pinned
    /\ Dispatch(Assigned(layout, t, g))

GroupRemove(t) ==
    /\ layout.tabs[t].group # NoGroup
    /\ Dispatch(Renormalize(Edit(layout, {t}, LAMBDA tab :
            [tab EXCEPT !.group = NoGroup, !.previous = NoGroup, !.order = LastPlace])))

MembersOf(g) == {t \in Tabs : layout.tabs[t].group = g}

WithoutGroup(g) ==
    Renormalize(Edit([layout EXCEPT !.groups = Kept(@, {i \in DOMAIN @ : @[i] # g})],
                     MembersOf(g),
                     LAMBDA tab : [tab EXCEPT !.group = NoGroup, !.order = LastPlace]))

(* group-delete from the group's own menu, which offers no undo *)
GroupDelete(g) == g \in GroupsOf(layout) /\ Dispatch(WithoutGroup(g))

(* App.deleteGroup, from the palette *)
DeleteWithUndo(g) ==
    /\ g \in GroupsOf(layout)
    /\ layout' = WithoutGroup(g)
    /\ notices' = LET all == Append(notices, [group |-> g, members |-> MembersOf(g)])
                  IN  SubSeq(all, IF Len(all) > MaxNotices THEN 2 ELSE 1, Len(all))

(* The group comes back and its members are assigned to it, in the order   *)
(* of TAB_IDS, whatever has become of either.                              *)
AssignAll(w, members, g) ==
    LET upTo[t \in 0..TabCount] ==
            IF t = 0 THEN w
            ELSE IF t \in members THEN Assigned(upTo[t - 1], t, g)
            ELSE upTo[t - 1]
    IN  upTo[TabCount]

UndoDelete(i) ==
    /\ layout' = AssignAll(WithGroup(layout, notices[i].group, {}),
                           notices[i].members, notices[i].group)
    /\ notices' = RemoveAt(notices, i)

Dismiss(i) == notices' = RemoveAt(notices, i) /\ UNCHANGED layout
-----------------------------------------------------------------------------
(* A layout that is imported, restored from the history or reset to: the   *)
(* default one, or that with a tab in a group.                             *)
Layouts == {Normalize(Default)}
           \cup {Normalize(WithGroup(Default, g, {1})) : g \in GroupIds}

ReplaceLayout(w) == Dispatch(w)

(* The next launch shows what the last accepted save left. *)
Relaunch ==
    /\ Accepted(layout)
    /\ layout' = Normalize(layout)
    /\ notices' = <<>>

LayoutNext ==
    \/ \E t \in Tabs : \/ Activate(t) \/ Close(t) \/ Reopen(t) \/ Pin(t)
                       \/ GroupRemove(t)
                       \/ \E d \in {-1, 1} : Move(t, d)
                       \/ \E u \in Tabs : MoveTo(t, u)
                       \/ \E g \in GroupIds : GroupAssign(t, g)
    \/ \E S \in SUBSET Tabs : CloseMany(S)
    \/ \E g \in GroupIds : \/ GroupDelete(g) \/ DeleteWithUndo(g)
                           \/ \E S \in SUBSET Tabs : GroupCreate(g, S)
    \/ \E i \in DOMAIN notices : UndoDelete(i) \/ Dismiss(i)
    \/ \E w \in Layouts : ReplaceLayout(w)
    \/ Relaunch

LayoutSpec == LayoutInit /\ [][LayoutNext]_layoutVars
-----------------------------------------------------------------------------
Links == GroupIds \cup {NoGroup}

LayoutTypeOK ==
    /\ layout \in [active : Tabs, groups : Seq(GroupIds),
                   tabs : [Tabs -> [open : BOOLEAN, pinned : BOOLEAN, group : Links,
                                    previous : Links, order : Nat]]]
    /\ notices \in Seq([group : GroupIds, members : SUBSET Tabs])

(* Whatever is closed, moved, pinned, grouped, deleted and undone: the     *)
(* renderer's own copy is one that the main process accepts and shows as   *)
(* it is at the next launch, with the same tabs at the same places of the  *)
(* same groups and the same one active; the active tab is open.  Only an   *)
(* undo whose group another layout has brought back makes one that is      *)
(* refused, for having a group twice; without the second one the tabs      *)
(* would still be where each is first (use-workspace.ts:32-50,             *)
(* workspace-service.ts:69).                                               *)
LayoutIsWhole ==
    /\ LayoutTypeOK
    /\ layout.active \in Open(layout)
    /\ LinksAccepted(layout)
    /\ \A next \in {Normalize(layout)} :
          /\ Rail(next) = Rail(layout)
          /\ next.active = layout.active
          /\ \A t \in Tabs : next.tabs[t].group = layout.tabs[t].group
=============================================================================
