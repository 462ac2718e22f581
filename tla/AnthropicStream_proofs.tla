------------------------ MODULE AnthropicStream_proofs ------------------------
(***************************************************************************)
(* Proofs about the Anthropic stream translator, for every sequence of     *)
(* upstream events and every bound on the number of blocks.                *)
(***************************************************************************)
EXTENDS AnthropicStream, TLAPS

StreamInv == TypeOK /\ FlagsAgree

LEMMA InitInv == Init => StreamInv
<1> SUFFICES ASSUME Init PROVE TypeOK /\ FlagsAgree
  BY DEF StreamInv
<1>1. frame \in Frames
  BY DEF Init, Frame, Frames
<1>2. TypeOK
  BY <1>1 DEF Init, TypeOK, Events, Content
<1>3. FlagsAgree
  BY DEF Init, FlagsAgree
<1> QED
  BY <1>2, <1>3

\* Every step keeps the types.
LEMMA StepType == TypeOK /\ [Next]_vars => TypeOK'
<1> SUFFICES ASSUME TypeOK, [Next]_vars PROVE TypeOK'
  OBVIOUS
<1> USE DEF TypeOK, Content, Events, Frame, Frames, Emit
<1>1. CASE UNCHANGED vars
  BY <1>1 DEF vars, local
<1>2. ASSUME NEW e \in Events, Receive(e) PROVE TypeOK'
  BY <1>2 DEF Receive
<1>3. CASE MessageStart
  <2>1. frame' \in Frames
    BY <1>3 DEF MessageStart
  <2> QED
    BY <1>3, <2>1 DEF MessageStart
<1>4. CASE CloseThinking
  <2>1. frame' \in Frames /\ contentIndex' \in Nat
    BY <1>4 DEF CloseThinking
  <2> QED
    BY <1>4, <2>1 DEF CloseThinking
<1>5. CASE CloseText
  <2>1. frame' \in Frames /\ contentIndex' \in Nat
    BY <1>5 DEF CloseText
  <2> QED
    BY <1>5, <2>1 DEF CloseText
<1>6. CASE OpenThinking
  BY <1>6 DEF OpenThinking
<1>7. CASE OpenText
  BY <1>7 DEF OpenText
<1>8. CASE ThinkingDelta
  BY <1>8 DEF ThinkingDelta
<1>9. CASE TextDelta
  BY <1>9 DEF TextDelta
<1>10. CASE ToolStart
  BY <1>10 DEF ToolStart
<1>11. CASE ToolDelta
  BY <1>11 DEF ToolDelta
<1>12. CASE ToolStop
  BY <1>12 DEF ToolStop
<1>13. CASE MessageDelta
  BY <1>13 DEF MessageDelta
<1>14. CASE MessageStop
  BY <1>14 DEF MessageStop, local
<1>15. CASE Error
  BY <1>15 DEF Error, local
<1>16. CASE Disconnect
  BY <1>16 DEF Disconnect, local
<1> QED
  BY <1>1, <1>2, <1>3, <1>4, <1>5, <1>6, <1>7, <1>8, <1>9, <1>10, <1>11, <1>12, <1>13,
     <1>14, <1>15, <1>16 DEF Next, Translate

\* Every step keeps the flags in agreement.
LEMMA StepFlags == TypeOK /\ FlagsAgree /\ [Next]_vars => FlagsAgree'
<1> SUFFICES ASSUME TypeOK, FlagsAgree, [Next]_vars PROVE FlagsAgree'
  OBVIOUS
<1> USE DEF TypeOK, FlagsAgree, Content, Events
<1>1. CASE UNCHANGED vars
  BY <1>1 DEF vars, local
<1>2. ASSUME NEW e \in Events, Receive(e) PROVE FlagsAgree'
  BY <1>2 DEF Receive
<1>3. CASE MessageStart
  BY <1>3 DEF MessageStart
<1>4. CASE CloseThinking
  BY <1>4 DEF CloseThinking
<1>5. CASE CloseText
  BY <1>5 DEF CloseText
<1>6. CASE OpenThinking
  BY <1>6 DEF OpenThinking
<1>7. CASE OpenText
  BY <1>7 DEF OpenText
<1>8. CASE ThinkingDelta
  BY <1>8 DEF ThinkingDelta
<1>9. CASE TextDelta
  BY <1>9 DEF TextDelta
<1>10. CASE ToolStart
  BY <1>10 DEF ToolStart
<1>11. CASE ToolDelta
  BY <1>11 DEF ToolDelta
<1>12. CASE ToolStop
  BY <1>12 DEF ToolStop
<1>13. CASE MessageDelta
  BY <1>13 DEF MessageDelta
<1>14. CASE MessageStop
  BY <1>14 DEF MessageStop, local
<1>15. CASE Error
  BY <1>15 DEF Error, local
<1>16. CASE Disconnect
  BY <1>16 DEF Disconnect, local
<1> QED
  BY <1>1, <1>2, <1>3, <1>4, <1>5, <1>6, <1>7, <1>8, <1>9, <1>10, <1>11, <1>12, <1>13,
     <1>14, <1>15, <1>16 DEF Next, Translate

\* The flags and the tool-call position agree in every reachable state.
THEOREM FlagsAlwaysAgree == Spec => [](TypeOK /\ FlagsAgree)
BY InitInv, StepType, StepFlags, PTL DEF Spec, StreamInv

-----------------------------------------------------------------------------

\* Every step is a step of the wire protocol, or is not seen by the client.
LEMMA StepImplements == StreamInv /\ [Next]_vars => [Wire!Next]_Wire!vars
<1> SUFFICES ASSUME TypeOK, FlagsAgree, [Next]_vars PROVE [Wire!Next]_Wire!vars
  BY DEF StreamInv
<1> USE DEF TypeOK, FlagsAgree, Content, Events, Emit, Frame, Wire!Frame, Wire!vars
<1>1. CASE UNCHANGED vars
  BY <1>1 DEF vars, local
<1>2. ASSUME NEW e \in Events, Receive(e) PROVE UNCHANGED Wire!vars
  BY <1>2 DEF Receive
<1>3. CASE MessageStart
  BY <1>3 DEF MessageStart, Wire!Next, Wire!MessageStart
<1>4. CASE CloseThinking
  BY <1>4 DEF CloseThinking, Wire!Next, Wire!BlockStop
<1>5. CASE CloseText
  BY <1>5 DEF CloseText, Wire!Next, Wire!BlockStop
<1>6. CASE OpenThinking
  BY <1>6 DEF OpenThinking, Wire!Next, Wire!BlockStart
<1>7. CASE OpenText
  BY <1>7 DEF OpenText, Wire!Next, Wire!BlockStart
<1>8. CASE ThinkingDelta
  BY <1>8 DEF ThinkingDelta, Wire!Next, Wire!BlockDelta
<1>9. CASE TextDelta
  BY <1>9 DEF TextDelta, Wire!Next, Wire!BlockDelta
<1>10. CASE ToolStart
  BY <1>10 DEF ToolStart, Wire!Next, Wire!BlockStart
<1>11. CASE ToolDelta
  BY <1>11 DEF ToolDelta, Wire!Next, Wire!BlockDelta
<1>12. CASE ToolStop
  BY <1>12 DEF ToolStop, Wire!Next, Wire!BlockStop
<1>13. CASE MessageDelta
  BY <1>13 DEF MessageDelta, Wire!Next, Wire!MessageDelta
<1>14. CASE MessageStop
  BY <1>14 DEF MessageStop, local, Wire!Next, Wire!MessageStop
<1>15. CASE Error
  BY <1>15 DEF Error, local, Wire!Next, Wire!Error
<1>16. CASE Disconnect
  BY <1>16 DEF Disconnect, local, Wire!Next, Wire!Gone
<1> QED
  BY <1>1, <1>2, <1>3, <1>4, <1>5, <1>6, <1>7, <1>8, <1>9, <1>10, <1>11, <1>12, <1>13,
     <1>14, <1>15, <1>16 DEF Next, Translate

\* Whatever the upstream sends, the client sees a well-formed Anthropic stream.
THEOREM ImplementsWire == Spec => WireSpec
<1>1. Init => Wire!Init
  BY DEF Init, Wire!Init, Frame, Wire!Frame
<1> QED
  BY <1>1, StepImplements, FlagsAlwaysAgree, PTL DEF StreamInv, Spec, WireSpec, Wire!Spec
=============================================================================
