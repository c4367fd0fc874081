-------------------------------- MODULE LoadMethods --------------------------------
(***************************************************************************)
(* objc-loadmethod.mm and its callers in objc-runtime-new.mm: the +load    *)
(* methods of classes and categories, scheduled as dyld tells the runtime  *)
(* of images, and called by the outermost call_load_methods.               *)
(*                                                                         *)
(* loadMethodLock is recursive and held throughout, so only the thread     *)
(* that calls a +load method can get in again: its dlopen and dlclose add  *)
(* to and remove from the lists while they are being worked off.           *)
(***************************************************************************)
EXTENDS Integers, Sequences, Functions

CONSTANTS Image,          \* the images dyld may map
          nil,            \* no class, no category, no method running
          Group,          \* Group[i]: the images mapped with i, i included
          Before,         \* Before[i]: those that dyld tells of before i
          Bundle,         \* the images that dlclose unmaps
          clslist,        \* clslist[i]: the classes of i
          nlclslist,      \* nlclslist[i]: those with +load, in the image's order
          nlcatlist,      \* nlcatlist[i]: the categories of i with +load
          Superclasses,   \* Superclasses[c]: c and its superclasses, root first
          ClassOf,        \* ClassOf[k]: the class that category k extends
          ClosesWaiting,  \* whether a +load method may close an image that
                          \* has a +load in the detached list
          MaxList         \* bound on the length of a list

Class    == DOMAIN Superclasses
Category == DOMAIN ClassOf

Categories(i) == Range(nlcatlist[i])
Contents(i)   == clslist[i] \cup Categories(i)
Loadable      == UNION {Range(nlclslist[i]) : i \in Image}

ImageOf(x) == CHOOSE i \in Image : x \in Contents(i)

\* The line of superclasses of a superclass is the start of a class's line.
ASSUME ClassAssumption ==
  /\ nil \notin Class \cup Category /\ Class \cap Category = {}
  /\ Class = UNION {clslist[i] : i \in Image}
  /\ \A c \in Class : LET line == Superclasses[c] IN
       /\ line \in Seq(Class) /\ line # <<>> /\ line[Len(line)] = c
       /\ \A n \in DOMAIN line : Superclasses[line[n]] = SubSeq(line, 1, n)
  /\ \A k \in Category : ClassOf[k] \in Class

\* An image has its own classes and categories.  dyld tells of a category's image
\* after the one of its class.
ASSUME ImageAssumption ==
  /\ Group \in [Image -> SUBSET Image] /\ Before \in [Image -> SUBSET Image]
  /\ \A i \in Image :
       /\ i \in Group[i] /\ Before[i] \subseteq Group[i] \ {i}
       /\ \A j \in Group[i] : Group[j] \subseteq Group[i]
       /\ \A j \in Image \ {i} : Contents(i) \cap Contents(j) = {}
       /\ nlclslist[i] \in Seq(clslist[i]) /\ nlcatlist[i] \in Seq(Category)
       /\ \A m, n \in DOMAIN nlcatlist[i] : nlcatlist[i][m] = nlcatlist[i][n] => m = n
       /\ \A c \in clslist[i] : \A s \in Range(Superclasses[c]) : ImageOf(s) \in Group[i]
       /\ \A k \in Categories(i) : ImageOf(ClassOf[k]) \in Before[i] \cup {i}

VARIABLES
  mapped,               \* the images mapped in
  notified,             \* those that load_images has been called for
  loadable_classes,     \* the classes that wait for +load; nil: removed
  loadable_categories,  \* the categories that wait for +load
  loaded,               \* the classes with RW_LOADED
  phase,                \* of the outermost call_load_methods: "idle" when there is
                        \* none, "loop", "classes" or "categories"
  detached,             \* what is left of the list it works off
  running,              \* the class or category whose +load runs, or nil
  called                \* those whose +load has been called

vars == <<mapped, notified, loadable_classes, loadable_categories, loaded, phase,
          detached, running, called>>

lists == <<loadable_classes, loadable_categories>>

\* The program runs: outside +load methods, or in one of them.
Program == phase = "idle" \/ running # nil

--------------------------------------------------------------------------------
(* dyld's callbacks *)

dlopen(i) ==
  /\ Program /\ ~(Group[i] \subseteq mapped)
  /\ mapped' = mapped \cup Group[i]
  /\ UNCHANGED <<notified, lists, loaded, phase, detached, running, called>>

\* "Don't bother if cls has no +load method"; and the class is RW_LOADED.
add_class_to_loadable_list(state, c) ==
  [classes |-> IF c \in Loadable THEN Append(state.classes, c) ELSE state.classes,
   loaded  |-> state.loaded \cup {c}]

\* The superclasses first, of other images too, up to one that is RW_LOADED.
schedule_class_load(state, c) ==
  LET line == Superclasses[c]
      schedule[n \in 0 .. Len(line)] ==
        IF n = 0 \/ line[n] \in state.loaded THEN state
        ELSE add_class_to_loadable_list(schedule[n - 1], line[n]) IN
  schedule[Len(line)]

\* The classes of the image with +load, in order.
prepare_load_methods(i) ==
  LET list == nlclslist[i]
      prepare[n \in 0 .. Len(list)] ==
        IF n = 0 THEN [classes |-> loadable_classes, loaded |-> loaded]
        ELSE schedule_class_load(prepare[n - 1], list[n]) IN
  prepare[Len(list)]

Room == Len(loadable_classes) < MaxList /\ Len(loadable_categories) < MaxList

hasLoadMethods(i) == nlclslist[i] # <<>> \/ nlcatlist[i] # <<>>

\* load_images: prepare_load_methods, and call_load_methods, which does nothing
\* when it is called in a +load.
load_images(i) ==
  /\ Program /\ Room
  /\ i \in mapped \ notified /\ Before[i] \subseteq notified
  /\ notified' = notified \cup {i}
  /\ loadable_classes' = prepare_load_methods(i).classes
  /\ loaded' = prepare_load_methods(i).loaded
  /\ loadable_categories' = loadable_categories \o nlcatlist[i]
  /\ phase' = IF phase = "idle" /\ hasLoadMethods(i) THEN "loop" ELSE phase
  /\ UNCHANGED <<mapped, detached, running, called>>

Unscheduled(list, xs) == [n \in DOMAIN list |-> IF list[n] \in xs THEN nil ELSE list[n]]

\* unmap_image: what waits for +load is removed from the two lists.
unmap_image(i) ==
  LET gone == Contents(i) IN
  /\ Program
  /\ i \in Bundle \cap mapped /\ \A j \in mapped \ {i} : i \notin Group[j]
  /\ running \notin gone
  /\ ClosesWaiting \/ gone \cap Range(detached) = {}
  /\ loadable_classes' = Unscheduled(loadable_classes, gone)
  /\ loadable_categories' = Unscheduled(loadable_categories, gone)
  /\ mapped' = mapped \ {i} /\ notified' = notified \ {i}
  /\ loaded' = loaded \ gone /\ called' = called \ gone
  /\ UNCHANGED <<phase, detached, running>>

--------------------------------------------------------------------------------
(* The outermost call_load_methods *)

detach_classes ==
  /\ phase = "loop" /\ loadable_classes # <<>>
  /\ detached' = loadable_classes /\ loadable_classes' = <<>>
  /\ phase' = "classes"
  /\ UNCHANGED <<mapped, notified, loadable_categories, loaded, running, called>>

\* The next +load of call_class_loads or call_category_loads: isLoadable is always
\* true.
call_load ==
  /\ phase \in {"classes", "categories"} /\ running = nil /\ detached # <<>>
  /\ detached' = Tail(detached)
  /\ running' = Head(detached)
  /\ called' = called \cup ({Head(detached)} \ {nil})
  /\ UNCHANGED <<mapped, notified, lists, loaded, phase>>

return ==
  /\ running # nil
  /\ running' = nil
  /\ UNCHANGED <<mapped, notified, lists, loaded, phase, detached, called>>

end_class_loads ==
  /\ phase = "classes" /\ running = nil /\ detached = <<>>
  /\ phase' = "loop"
  /\ UNCHANGED <<mapped, notified, lists, loaded, detached, running, called>>

\* Mutant: call_class_loads is called once, not until there are no more classes.
detach_categories_early ==
  /\ phase = "loop"
  /\ detached' = loadable_categories /\ loadable_categories' = <<>>
  /\ phase' = "categories"
  /\ UNCHANGED <<mapped, notified, loadable_classes, loaded, running, called>>

detach_categories ==
  /\ phase = "loop" /\ loadable_classes = <<>>
  /\ detached' = loadable_categories /\ loadable_categories' = <<>>
  /\ phase' = "categories"
  /\ UNCHANGED <<mapped, notified, loadable_classes, loaded, running, called>>

\* Mutant: categories that were added are left for the next image.
end_category_loads_once ==
  /\ phase = "categories" /\ running = nil /\ detached = <<>>
  /\ phase' = IF loadable_classes # <<>> THEN "loop" ELSE "idle"
  /\ UNCHANGED <<mapped, notified, lists, loaded, detached, running, called>>

\* The loop goes on if a category's +load made new classes or categories loadable.
end_category_loads ==
  /\ phase = "categories" /\ running = nil /\ detached = <<>>
  /\ phase' = IF loadable_classes # <<>> \/ loadable_categories # <<>>
              THEN "loop" ELSE "idle"
  /\ UNCHANGED <<mapped, notified, lists, loaded, detached, running, called>>

--------------------------------------------------------------------------------
Init ==
  /\ mapped = {} /\ notified = {}
  /\ loadable_classes = <<>> /\ loadable_categories = <<>> /\ loaded = {}
  /\ phase = "idle" /\ detached = <<>> /\ running = nil /\ called = {}

Next ==
  \/ \E i \in Image : dlopen(i) \/ load_images(i) \/ unmap_image(i)
  \/ detach_classes \/ call_load \/ return \/ end_class_loads
  \/ detach_categories \/ end_category_loads

Spec == Init /\ [][Next]_vars

--------------------------------------------------------------------------------
(* Properties *)

\* "Class +load methods are called superclass-first.  Category +load methods are not
\* called until after the parent class's +load", and no +load is called twice, in
\* the face of images mapped and unmapped by +load methods.
LoadOrder ==
  [][running' \notin {nil, running} =>
       /\ running' \notin called
       /\ running' \in Class =>
            (Range(Superclasses[running']) \cap Loadable) \ {running'} \subseteq called
       /\ running' \in Category /\ ClassOf[running'] \in Loadable =>
            Range(Superclasses[ClassOf[running']]) \cap Loadable \subseteq called]_vars

\* "no +load method is forgotten because it was added during a +load call": when the
\* outermost call is over, every +load of every image has been called.
NoneForgotten ==
  phase = "idle" =>
    \A i \in notified : Range(nlclslist[i]) \cup Categories(i) \subseteq called

\* remove_class_from_loadable_list: "Class cls may have been loadable before, but it is
\* now no longer loadable (because its image is being unmapped)": when the +load of a
\* class is called, its image is mapped.  It fails when the class is in the detached
\* list, where nothing looks for it.
LoadsWhatIsMapped == running \in Class => ImageOf(running) \in mapped
================================================================================
