------------------------------- MODULE Video --------------------------------
(***************************************************************************)
(* How a recording becomes the layers of one video (rest/b3lb/             *)
(* make_xges.py), as functions of the recording's files and the profile.   *)
(* Times are whole units, and the video starts with the recording and ends *)
(* with its webcams: B3LB leaves OPTS.start and OPTS.end at 0 and None.    *)
(* A recording is                                                          *)
(*   [end, slides, cursor, shapes, desk, deskEnd]:                         *)
(* the webcams' duration; per slide [from, to, desk], where desk marks the *)
(* placeholder of a shared screen; the cursor's events [at, shown] and the *)
(* shapes of each slide [id, from, undo] in the order of their files, undo *)
(* being -1 for a shape that stays; the times [from, to] of screen sharing *)
(* and the duration of its video.  Of the profile the boxes take the sizes *)
(* and the layers the flag 'annotations'.                                  *)
(***************************************************************************)
EXTENDS Integers, Sequences, FiniteSets, SequencesExt

\* Python rounds a half to the even number.
Round(a, b) ==
    LET low == a \div b
        twice == 2 * (a - low * b)
    IN  IF twice > b \/ (twice = b /\ low % 2 = 1) THEN low + 1 ELSE low

-----------------------------------------------------------------------------
\* _constrain: the largest size of the ratio w to h that fits.  The width of
\* a webcam to be stretched is a fraction.
Constrain(w, h, max) ==
    LET height == Round(h * max.w * w.den, w.num)
    IN  IF height <= max.h
        THEN [w |-> max.w, h |-> height]
        ELSE [w |-> Round(w.num * max.h, w.den * h), h |-> max.h]

\* The widths of Presentation.__init__.
CamWidth(opts) == Round(opts.width * opts.webcam_size, 100)
SlidesWidth(opts) == opts.width - CamWidth(opts)

\* add_webcams: size, and distance from the left.
WebcamBox(opts, w, h) ==
    LET wide == IF opts.stretch THEN [num |-> w * 16, den |-> 12] ELSE [num |-> w, den |-> 1]
        box == Constrain(wide, h, [w |-> CamWidth(opts), h |-> opts.height])
    IN  [x |-> opts.width - box.w, w |-> box.w, h |-> box.h]

\* The size of slides, annotations and the shared screen, which start at the left.
SlideBox(opts, w, h) ==
    Constrain([num |-> w, den |-> 1], h, [w |-> SlidesWidth(opts), h |-> opts.height])

-----------------------------------------------------------------------------
\* _add_clip: 'what' is to be seen from 'from' on; 'in' is where its video
\* starts.  Nothing starts after the end or goes past it.
AddClip(rec, what, from, in, length) ==
    IF from > rec.end THEN {}
    ELSE {[what |-> what, from |-> from, in |-> in,
           to |-> from + Min({length, rec.end - from})]}

\* add_slides, the slides.
SlideLayer(rec) ==
    UNION {AddClip(rec, i, rec.slides[i].from, 0, rec.slides[i].to - rec.slides[i].from) :
              i \in {j \in DOMAIN rec.slides :
                       rec.slides[j].from <= rec.end /\ ~rec.slides[j].desk}}

\* add_slides, the cursor: each event is shown until the next one, on the
\* slide of its own time.
CursorClips(rec) ==
    LET e == rec.cursor
        end(i) == IF i < Len(e) THEN e[i + 1].at ELSE rec.end
        slideAt(t) == {j \in DOMAIN rec.slides : rec.slides[j].from <= t /\ t < rec.slides[j].to}
    IN  UNION {AddClip(rec, i, e[i].at, 0, end(i) - e[i].at) :
                  i \in {j \in DOMAIN e : e[j].shown /\ slideAt(e[j].at) # {}}}

\* It returns before if the profile has no annotations.
CursorLayer(rec, annotations) == IF annotations THEN CursorClips(rec) ELSE {}

\* The time a shape of slide s is drawn, within the time of the slide.
ShapeTime(s, shape) ==
    LET within(t) == Min({Max({t, s.from}), s.to})
    IN  [from |-> within(shape.from), to |-> within(IF shape.undo < 0 THEN s.to ELSE shape.undo)]

Drawn(rec, k) == {i \in DOMAIN rec.shapes[k] :
                    ShapeTime(rec.slides[k], rec.shapes[k][i]).from <= rec.end}

\* Whether the interval trees take all slides and, with annotations, shapes:
\* they refuse an empty interval, and the rendering stops.
Drawable(rec, annotations) ==
    \A k \in DOMAIN rec.slides :
        /\ rec.slides[k].from < rec.slides[k].to
        /\ annotations => \A i \in Drawn(rec, k) :
              LET t == ShapeTime(rec.slides[k], rec.shapes[k][i]) IN t.from < t.to

\* Mutant: earlier versions of a shape stay.
AllVersions(rec, k, live) == live

\* Of every shape the last version.
LastVersions(rec, k, live) ==
    {i \in live : \A j \in live : rec.shapes[k][j].id = rec.shapes[k][i].id => j <= i}

\* add_slides, the annotations of slide k: split_overlaps and merge_overlaps
\* cut the shapes' intervals at every bound; each piece becomes one picture.
ShapeClips(rec, k) ==
    LET time(i) == ShapeTime(rec.slides[k], rec.shapes[k][i])
        bounds == UNION {{time(i).from, time(i).to} : i \in Drawn(rec, k)}
        next(b) == Min({c \in bounds : c > b})
        live(b) == {i \in Drawn(rec, k) : time(i).from <= b /\ b < time(i).to}
    IN  UNION {AddClip(rec, LastVersions(rec, k, live(b)), b, 0, next(b) - b) :
                  b \in {c \in bounds : live(c) # {}}}

AnnotationLayer(rec, annotations, k) == IF annotations THEN ShapeClips(rec, k) ELSE {}

\* add_deskshare.
DeskshareLayer(rec) ==
    UNION {AddClip(rec, i, rec.desk[i].from, rec.desk[i].from,
                   Min({rec.desk[i].to, rec.deskEnd}) - rec.desk[i].from) :
              i \in {j \in DOMAIN rec.desk : rec.desk[j].from <= rec.deskEnd}}

-----------------------------------------------------------------------------
(* What they are to be.                                                    *)

Seen(layer, t) == {c.what : c \in {d \in layer : d.from <= t /\ t < d.to}}

\* Webcams and slides fill the frame as far as their ratios let them, and
\* neither leaves it nor covers the other, for every profile.
BoxesFit(opts, w, h) ==
    LET cam == WebcamBox(opts, w, h)
        slide == SlideBox(opts, w, h)
    IN  /\ slide.w <= cam.x /\ 0 <= slide.w
        /\ cam.w >= 0 /\ cam.h \in 0 .. opts.height /\ slide.h \in 0 .. opts.height
        /\ slide.w = SlidesWidth(opts) \/ slide.h = opts.height
        /\ 2 * slide.h * w \in 2 * slide.w * h - Max({w, h}) .. 2 * slide.w * h + Max({w, h})

\* At every moment the layers show what the recording did: the slide, the
\* screen and, for a profile with annotations and no other, the cursor where
\* it was last and of every shape its latest version.
ShowsTheRecording(rec, annotations) ==
    Drawable(rec, annotations) => \A t \in 0 .. Max({rec.end, rec.deskEnd}) :
        LET at(s) == s.from <= t /\ t < s.to /\ t < rec.end
            last == {i \in DOMAIN rec.cursor : rec.cursor[i].at <= t
                        /\ \A j \in DOMAIN rec.cursor : rec.cursor[j].at <= t => j <= i}
            visible(k, i) ==
                /\ rec.shapes[k][i].from <= t
                /\ rec.shapes[k][i].undo < 0 \/ t < rec.shapes[k][i].undo
        IN  /\ Seen(SlideLayer(rec), t) = {k \in DOMAIN rec.slides : at(rec.slides[k]) /\ ~rec.slides[k].desk}
            /\ Seen(CursorLayer(rec, annotations), t) = {i \in last : annotations /\ t < rec.end /\ rec.cursor[i].shown
                  /\ \E s \in ToSet(rec.slides) : s.from <= rec.cursor[i].at /\ rec.cursor[i].at < s.to}
            /\ \A k \in DOMAIN rec.slides :
                  UNION Seen(AnnotationLayer(rec, annotations, k), t) =
                     {i \in DOMAIN rec.shapes[k] : annotations /\ at(rec.slides[k]) /\ visible(k, i)
                        /\ \A j \in DOMAIN rec.shapes[k] :
                              (visible(k, j) /\ rec.shapes[k][j].id = rec.shapes[k][i].id) => j <= i}
            /\ Seen(DeskshareLayer(rec), t) = {i \in DOMAIN rec.desk : at(rec.desk[i]) /\ t < rec.deskEnd}

=============================================================================
