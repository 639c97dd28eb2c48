----------------------------- MODULE RingBuffer -----------------------------
(***************************************************************************)
(* The ring buffer as operators on a record: r and w are the 15-bit read   *)
(* and write index, rm and wm their mirror bits, buf the bytes.            *)
(***************************************************************************)
EXTENDS Integers, Sequences

CONSTANTS BufSize,      \* rb->buffer_size, an rt_int16_t
          LenModulus    \* 2^16: a length is an rt_uint16_t

ASSUME RingAssumption ==
  BufSize \in 1 .. (2^15 - 1) /\ LenModulus \in Nat /\ BufSize + 1 < LenModulus

Index == 0 .. (BufSize - 1)

\* rt_ringbuffer_init, rt_ringbuffer_reset (which leaves the bytes alone)
NewRing(bytes) == [r |-> 0, rm |-> 0, w |-> 0, wm |-> 0, buf |-> bytes]

\* rt_ringbuffer_status, rt_ringbuffer_data_len, rt_ringbuffer_space_len
RingEmpty(rb) == rb.r = rb.w /\ rb.rm = rb.wm
RingFull(rb)  == rb.r = rb.w /\ rb.rm # rb.wm

rt_ringbuffer_data_len(rb) ==
  CASE RingEmpty(rb) -> 0
    [] RingFull(rb)  -> BufSize
    [] rb.w > rb.r   -> rb.w - rb.r
    [] OTHER         -> BufSize - (rb.r - rb.w)

rt_ringbuffer_space_len(rb) == BufSize - rt_ringbuffer_data_len(rb)

\* the two memcpy of a put: s goes to the cells from index i on, and on from 0
Copied(buf, i, s) ==
  [c \in Index |-> LET j == ((c - i) % BufSize) + 1
                   IN  IF j <= Len(s) THEN s[j] ELSE buf[c]]

\* the two memcpy of a get
Bytes(rb, n) == [j \in 1 .. n |-> rb.buf[(rb.r + j - 1) % BufSize]]

Flip(mirror) == 1 - mirror

\* write_index or read_index and its mirror after n bytes: "we are going into
\* the other side of the mirror"
Wrote(rb, n) ==
  IF BufSize - rb.w > n THEN [rb EXCEPT !.w = @ + n]
  ELSE [rb EXCEPT !.w = n - (BufSize - @), !.wm = Flip(@)]

\* mutant: the mirror is left alone when the index goes back to 0
Drained_unflipped(rb, n) ==
  IF BufSize - rb.r > n THEN [rb EXCEPT !.r = @ + n]
  ELSE [rb EXCEPT !.r = n - (BufSize - @)]

Drained(rb, n) ==
  IF BufSize - rb.r > n THEN [rb EXCEPT !.r = @ + n]
  ELSE [rb EXCEPT !.r = n - (BufSize - @), !.rm = Flip(@)]

Least(a, b) == IF a < b THEN a ELSE b

\* what reaches rt_ringbuffer_put and rt_ringbuffer_get of a caller's size_t
Length(n) == n % LenModulus

\* the number of bytes put or got, and the buffer afterwards
PutLen(rb, s) == Least(Length(Len(s)), rt_ringbuffer_space_len(rb))

rt_ringbuffer_put(rb, s) ==
  LET n == PutLen(rb, s)
  IN  IF n = 0 THEN rb
      ELSE Wrote([rb EXCEPT !.buf = Copied(@, rb.w, SubSeq(s, 1, n))], n)

GetLen(rb, n) == Least(Length(n), rt_ringbuffer_data_len(rb))

rt_ringbuffer_get(rb, n) ==
  IF rt_ringbuffer_data_len(rb) = 0 THEN rb ELSE Drained(rb, GetLen(rb, n))

rt_ringbuffer_put_force(rb, s) ==
  LET l  == Length(Len(s))
      t  == SubSeq(s, IF l > BufSize THEN l - BufSize + 1 ELSE 1, l)
      n  == Len(t)
      b1 == Wrote([rb EXCEPT !.buf = Copied(@, rb.w, t)], n)
  IN  IF n <= rt_ringbuffer_space_len(rb) THEN b1
      ELSE [b1 EXCEPT !.r = b1.w, !.rm = IF BufSize - rb.w > n THEN @ ELSE Flip(@)]

rt_ringbuffer_putchar(rb, ch) ==
  IF rt_ringbuffer_space_len(rb) = 0 THEN rb
  ELSE LET b1 == [rb EXCEPT !.buf = [@ EXCEPT ![rb.w] = ch]]
       IN  IF rb.w = BufSize - 1 THEN [b1 EXCEPT !.w = 0, !.wm = Flip(@)]
           ELSE [b1 EXCEPT !.w = @ + 1]

\* mutant: the read index stays where it is
rt_ringbuffer_putchar_force_kept(rb, ch) ==
  LET b1 == [rb EXCEPT !.buf = [@ EXCEPT ![rb.w] = ch]]
  IN  IF rb.w = BufSize - 1 THEN [b1 EXCEPT !.w = 0, !.wm = Flip(@)]
      ELSE [b1 EXCEPT !.w = @ + 1]

rt_ringbuffer_putchar_force(rb, ch) ==
  LET b1 == [rb EXCEPT !.buf = [@ EXCEPT ![rb.w] = ch]]
      b2 == IF rb.w = BufSize - 1 THEN [b1 EXCEPT !.w = 0, !.wm = Flip(@)]
            ELSE [b1 EXCEPT !.w = @ + 1]
  IN  IF ~RingFull(rb) THEN b2
      ELSE [b2 EXCEPT !.r = b2.w, !.rm = IF rb.w = BufSize - 1 THEN Flip(@) ELSE @]

rt_ringbuffer_getchar(rb) ==
  IF rt_ringbuffer_data_len(rb) = 0 THEN rb
  ELSE IF rb.r = BufSize - 1 THEN [rb EXCEPT !.r = 0, !.rm = Flip(@)]
       ELSE [rb EXCEPT !.r = @ + 1]

\* the queue of bytes that a ring buffer stands for
Content(rb) == Bytes(rb, rt_ringbuffer_data_len(rb))
=============================================================================
