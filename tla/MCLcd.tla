--------------------------------- MODULE MCLcd ---------------------------------
(* Lcd for model checking: the texts that are drawn.                             *)
EXTENDS Lcd

\* Longer than the two lines, and with a character that is no digit.
MCDeviceId == <<1, 9, 0, Letter, 5, 0, 7, 3, 2, 4, 6, 8, 5>>

\* None, the shortest and the longest there are.
MCAddresses ==
    {<<>>,
     <<1, Dot, 0, Dot, 0, Dot, 8>>,
     <<1, 9, 2, Dot, 1, 6, 8, Dot, 1, 0, 1, Dot, 2, 5, 4>>}

\* -9.95 and 23.5 degrees, which are shown as -10 and 24.
MCTemperatures == {-9950, 23500}

MCConnections == {1}

\* Blank, and the last frame.
MCFrames == {-1, 5}

MCTimes == {<<Space, 7, Colon, 0, 5>>, <<1, 2, Colon, 3, 4>>}
=============================================================================
