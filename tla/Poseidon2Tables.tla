--------------------------- MODULE Poseidon2Tables --------------------------
(***************************************************************************)
(* The constants of Poseidon2, as the three parts of the program write     *)
(* them down: the library, the circuit and the contracts each have their   *)
(* own copy.  Every number is the code's constant modulo Q, read off each  *)
(* file by itself: where two copies differ, so do the tables here, but for *)
(* constants that are congruent modulo Q.                                  *)
(***************************************************************************)
EXTENDS Integers, Sequences

\* The largest prime whose square is below 2^31: TLC computes with 32 bits.
Q == 46337

\* A table of round constants: full rounds, partial rounds, full rounds.  The
\* row of a partial round is 0 but for its first element.
Rows(t, first, partial, last) ==
  first \o [i \in DOMAIN partial |-> [j \in 1..t |-> IF j = 1 THEN partial[i] ELSE 0]] \o last

\* An internal matrix: ones, and on the diagonal the elements given.
Ones(diag) == [i \in DOMAIN diag |-> [j \in DOMAIN diag |-> IF i = j THEN diag[i] ELSE 1]]

-----------------------------------------------------------------------------
(* The library: BN256 (the scalar field of BN254), the only one the pool uses. *)

BN256_MAT_DIAG2_M_1 == <<1, 2>>
BN256_MAT_INTERNAL2 == Ones(<<2, 3>>)
BN256_RC2 == Rows(2,
  << <<24974, 39313>>, <<22750, 6311>>, <<37374, 7078>>, <<29025, 17660>> >>,
  << 39204, 42738, 14699, 19876, 34085, 17508, 19692, 10151, 40685, 12668, 8579, 12682,
     3315, 14635, 6975, 3401, 32696, 7912, 45703, 7700, 9228, 30016, 38891, 29908, 3872,
     23975, 3894, 32848, 203, 40403, 7263, 34765, 46020, 29383, 15727, 26866, 11486, 13206,
     12797, 21255, 9603, 36733, 8892, 42207, 31315, 17264, 2638, 28339, 16462, 25874, 3822,
     25114, 27087, 36135, 28001, 36728 >>,
  << <<28676, 21870>>, <<5907, 7952>>, <<44158, 17446>>, <<3051, 38247>> >>)

BN256_MAT_DIAG3_M_1 == <<1, 1, 2>>
BN256_MAT_INTERNAL3 == Ones(<<2, 2, 3>>)
BN256_RC3 == Rows(3,
  << <<21451, 38849, 19420>>, <<16443, 41250, 21080>>, <<44286, 38290, 20823>>,
     <<17239, 20625, 16354>> >>,
  << 35603, 41690, 40516, 19531, 33930, 13646, 37656, 14948, 18493, 24070, 1661, 3703, 3484,
     12116, 10618, 32107, 73, 34421, 8839, 20747, 2244, 17847, 43689, 23635, 34728, 4420,
     3914, 42163, 22365, 21179, 18100, 15752, 663, 19596, 10822, 22298, 14837, 43659, 21676,
     30029, 27076, 9235, 18536, 1309, 20083, 5599, 17212, 2282, 5639, 2200, 12817, 14663,
     14833, 33589, 7730, 35736 >>,
  << <<34492, 10896, 44978>>, <<46323, 37592, 36275>>, <<14627, 8086, 44954>>,
     <<40356, 1773, 31124>> >>)

BN256_MAT_DIAG4_M_1 == <<7048, 9417, 32952, 4996>>
BN256_MAT_INTERNAL4 == Ones(<<7049, 9418, 32953, 4997>>)
BN256_RC4 == Rows(4,
  << <<4917, 39430, 43442, 20677>>, <<26349, 9397, 23127, 30531>>,
     <<36033, 22289, 30554, 45713>>, <<15089, 9428, 18880, 25905>> >>,
  << 23242, 22661, 45022, 4193, 37347, 31717, 46207, 20083, 8670, 8071, 41084, 45748, 14059,
     15533, 43523, 7050, 7092, 2312, 199, 5863, 43495, 4048, 41315, 24540, 9429, 24432,
     3515, 27931, 39711, 21734, 13506, 28258, 31858, 24241, 12470, 17471, 27796, 25952,
     45344, 44405, 4551, 7418, 14957, 25019, 14655, 44136, 45777, 5233, 32922, 946, 21039,
     45049, 5423, 7007, 42414, 45144 >>,
  << <<13501, 17723, 13428, 4558>>, <<7213, 44705, 1769, 9581>>,
     <<2348, 45641, 41770, 45241>>, <<45283, 14935, 39047, 45040>> >>)

-----------------------------------------------------------------------------
(* The library: BLS12-381. *)

BLS_MAT_DIAG2_M_1 == <<1, 2>>
BLS_MAT_INTERNAL2 == Ones(<<2, 3>>)
BLS_RC2 == Rows(2,
  << <<26392, 24877>>, <<7741, 44121>>, <<44047, 20698>>, <<10684, 6531>> >>,
  << 15979, 15200, 41500, 21507, 10698, 2301, 20249, 46300, 41106, 44414, 20317, 8300,
     44471, 37919, 27264, 5731, 41214, 19304, 27361, 206, 37083, 27552, 12427, 22072, 5060,
     42878, 28322, 37395, 3802, 36493, 32162, 44186, 36113, 42034, 2340, 41570, 39525,
     37760, 16027, 25366, 14258, 7949, 18349, 39013, 38284, 31271, 30633, 38062, 35851,
     22219, 22001, 9954, 15357, 19359, 1544, 19101 >>,
  << <<33321, 26476>>, <<11771, 19741>>, <<21610, 5312>>, <<4869, 5030>> >>)

BLS_MAT_DIAG3_M_1 == <<1, 1, 2>>
BLS_MAT_INTERNAL3 == Ones(<<2, 2, 3>>)
BLS_RC3 == Rows(3,
  << <<43094, 19670, 16145>>, <<38051, 31057, 17109>>, <<35069, 23260, 6137>>,
     <<32772, 18149, 44364>> >>,
  << 22222, 37890, 7933, 33704, 44014, 36551, 17320, 23408, 20410, 19268, 14217, 34983,
     7767, 4983, 33090, 39888, 35531, 30970, 12713, 38334, 23099, 19712, 37614, 29065,
     14111, 9399, 38433, 20972, 41283, 13564, 13293, 14047, 39113, 39712, 42784, 5018,
     28145, 2195, 394, 41608, 5958, 39901, 34099, 4824, 4473, 3171, 27079, 22285, 13285,
     43216, 28012, 17288, 8389, 18995, 26819, 9989 >>,
  << <<19390, 23295, 24236>>, <<42715, 16287, 12470>>, <<33686, 34270, 22877>>,
     <<21327, 38959, 16883>> >>)

BLS_MAT_DIAG4_M_1 == <<15698, 25887, 30160, 22715>>
BLS_MAT_INTERNAL4 == Ones(<<15699, 25888, 30161, 22716>>)
BLS_RC4 == Rows(4,
  << <<33146, 10274, 45496, 40090>>, <<18838, 14478, 5681, 28265>>,
     <<24645, 20386, 18182, 21687>>, <<26299, 25653, 39653, 31563>> >>,
  << 15155, 31181, 37606, 21299, 22218, 40827, 18684, 44690, 33632, 19466, 20512, 16750,
     29059, 24707, 4079, 38813, 30437, 1338, 7965, 35445, 34974, 18947, 41392, 20042, 22331,
     34891, 45152, 32816, 10389, 26712, 30624, 31871, 8947, 41212, 20209, 15279, 5893, 8317,
     20214, 15757, 10848, 32860, 15646, 12655, 2728, 44895, 3046, 5030, 35384, 24556, 38889,
     39464, 8721, 39415, 35935, 38500 >>,
  << <<1934, 43128, 30206, 41716>>, <<7797, 11828, 7005, 27777>>,
     <<40216, 28038, 29619, 39560>>, <<573, 7385, 5114, 43302>> >>)

BLS_MAT_DIAG8_M_1 == <<1597, 45474, 12430, 2652, 18972, 5014, 8712, 7157>>
BLS_MAT_INTERNAL8 == Ones(<<1598, 45475, 12431, 2653, 18973, 5015, 8713, 7158>>)
BLS_RC8 == Rows(8,
  << <<46046, 34295, 21922, 16024, 5086, 27978, 5047, 27735>>,
     <<12590, 27741, 39571, 36403, 11542, 4997, 42200, 20095>>,
     <<18357, 18420, 3983, 17730, 6968, 35748, 2748, 38398>>,
     <<36458, 34432, 43724, 13803, 40243, 6374, 19776, 20423>> >>,
  << 37243, 23857, 31967, 43262, 37698, 41039, 4555, 3192, 6275, 5886, 36334, 23345, 26123,
     25361, 27144, 31524, 41461, 8194, 33490, 13792, 17729, 15913, 33793, 32217, 14111,
     36841, 36561, 10778, 39080, 13423, 11016, 40732, 2184, 28929, 35413, 8510, 41094,
     41518, 15516, 14774, 40038, 33717, 295, 3599, 30331, 6521, 37190, 34110, 11897, 6950,
     22993, 41837, 7189, 8765, 18049, 17953, 2588 >>,
  << <<12946, 25493, 13848, 7500, 41198, 15671, 9163, 21003>>,
     <<31350, 33181, 34001, 18117, 17511, 38258, 1647, 3387>>,
     <<18697, 29090, 3320, 11279, 39446, 24289, 19975, 43840>>,
     <<36197, 16935, 26818, 42284, 45339, 34814, 37230, 40316>> >>)

-----------------------------------------------------------------------------
(* The library: Pallas. *)

PALLAS_MAT_DIAG3_M_1 == <<1, 1, 2>>
PALLAS_MAT_INTERNAL3 == Ones(<<2, 2, 3>>)
PALLAS_RC3 == Rows(3,
  << <<19670, 17109, 23260>>, <<6137, 32772, 44364>>, <<37890, 7933, 33704>>,
     <<36551, 17320, 14217>> >>,
  << 34983, 7767, 33090, 39888, 35531, 30970, 19712, 37614, 29065, 38433, 41283, 13564,
     13293, 39113, 39712, 42784, 2195, 394, 4473, 27079, 22285, 13285, 17288, 18995, 26819,
     12470, 34270, 21327, 38959, 9062, 26016, 44005, 9216, 11210, 9711, 6701, 30379, 36231,
     39082, 13692, 4756, 15407, 361, 39172, 6531, 37365, 36694, 28384, 2855, 23695, 30461,
     46127, 10818, 7462, 18870, 30860 >>,
  << <<36617, 33788, 12578>>, <<26576, 1371, 17880>>, <<19309, 12668, 4690>>,
     <<44226, 22900, 11561>> >>)

PALLAS_MAT_DIAG4_M_1 == <<28086, 41015, 3519, 6056>>
PALLAS_MAT_INTERNAL4 == Ones(<<28087, 41016, 3520, 6057>>)
PALLAS_RC4 == Rows(4,
  << <<33146, 40090, 18838, 5681>>, <<28265, 24645, 20386, 18182>>,
     <<21687, 26299, 25653, 39653>>, <<31563, 40827, 18684, 33632>> >>,
  << 19466, 20512, 29059, 24707, 38813, 35445, 18947, 45152, 10389, 8947, 20209, 15279,
     20214, 15757, 32860, 15646, 2728, 44895, 3046, 35384, 24556, 38889, 8721, 39415, 35935,
     38500, 43128, 7797, 40216, 29619, 39560, 43302, 22716, 3940, 8564, 2329, 24337, 5843,
     39510, 6026, 16129, 43581, 37678, 35151, 42047, 33659, 40266, 30447, 43805, 29610,
     1352, 12531, 12243, 39174, 43599, 24957 >>,
  << <<20540, 46108, 35341, 40910>>, <<26862, 12451, 22921, 8280>>,
     <<18538, 43079, 1598, 19357>>, <<22594, 2125, 43736, 18444>> >>)

PALLAS_MAT_DIAG8_M_1 == <<25650, 13822, 28693, 29350, 38842, 11978, 16697, 1666>>
PALLAS_MAT_INTERNAL8 == Ones(<<25651, 13823, 28694, 29351, 38843, 11979, 16698, 1667>>)
PALLAS_RC8 == Rows(8,
  << <<21922, 16024, 5086, 27978, 5047, 12590, 39571, 36403>>,
     <<11542, 4997, 3983, 6968, 2748, 38398, 34432, 43724>>,
     <<6374, 19776, 20423, 23857, 31967, 43262, 6275, 5886>>,
     <<26123, 27144, 31524, 8194, 13792, 17729, 15913, 33793>> >>,
  << 32217, 10778, 39080, 13423, 11016, 40732, 28929, 35413, 8510, 41518, 15516, 14774,
     40038, 3599, 30331, 6521, 37190, 34110, 11897, 8765, 2588, 13848, 15671, 21003, 31350,
     33181, 34001, 18117, 1647, 18697, 39446, 19975, 43840, 16935, 45339, 38653, 9918,
     43325, 39259, 6895, 42528, 29299, 36301, 9235, 10186, 4069, 20826, 4555, 43086, 42820,
     44032, 35529, 26471, 831, 10986, 496, 11185 >>,
  << <<12197, 11887, 25498, 1860, 39191, 43884, 588, 2588>>,
     <<1598, 5015, 24609, 38271, 5736, 9791, 34180, 14308>>,
     <<14611, 43718, 5580, 20336, 44095, 22244, 33794, 5641>>,
     <<22335, 2604, 13405, 41098, 11581, 30346, 20870, 31172>> >>)

-----------------------------------------------------------------------------
(* The library: Vesta. *)

VESTA_MAT_DIAG3_M_1 == <<1, 1, 2>>
VESTA_MAT_INTERNAL3 == Ones(<<2, 2, 3>>)
VESTA_RC3 == Rows(3,
  << <<19670, 17109, 23260>>, <<6137, 32772, 44364>>, <<37890, 7933, 33704>>,
     <<36551, 17320, 14217>> >>,
  << 34983, 7767, 33090, 39888, 35531, 30970, 19712, 37614, 29065, 38433, 41283, 13564,
     13293, 39113, 39712, 42784, 2195, 394, 4473, 27079, 22285, 13285, 17288, 18995, 26819,
     12470, 34270, 21327, 38959, 9062, 26016, 44005, 9216, 11210, 9711, 6701, 30379, 36231,
     39082, 13692, 4756, 15407, 361, 39172, 6531, 37365, 36694, 28384, 2855, 23695, 30461,
     46127, 10818, 7462, 18870, 30860 >>,
  << <<36617, 33788, 12578>>, <<26576, 1371, 17880>>, <<19309, 12668, 4690>>,
     <<44226, 22900, 11561>> >>)

-----------------------------------------------------------------------------
(* The library: Goldilocks. *)

GOLDILOCKS_MAT_DIAG8_M_1 == <<26618, 45847, 37244, 4775, 37621, 34931, 9317, 20311>>
GOLDILOCKS_MAT_INTERNAL8 == Ones(<<26619, 45848, 37245, 4776, 37622, 34932, 9318, 20312>>)
GOLDILOCKS_RC8 == Rows(8,
  << <<12476, 27439, 41053, 30618, 8417, 3852, 4105, 25954>>,
     <<21913, 7552, 40045, 35258, 26539, 6386, 34522, 10838>>,
     <<20851, 15241, 28113, 4885, 27815, 24656, 31257, 17899>>,
     <<42422, 34010, 7656, 20310, 34519, 43560, 630, 28168>> >>,
  << 27650, 4221, 24310, 39522, 24147, 21584, 17658, 2313, 22428, 44927, 37130, 39992,
     15355, 42409, 8566, 7239, 43304, 34996, 37928, 2506, 25781, 41617 >>,
  << <<26791, 1100, 45507, 31361, 18602, 14431, 25604, 15087>>,
     <<15153, 25737, 13612, 23630, 39821, 36272, 13113, 23939>>,
     <<45360, 15520, 19507, 27053, 5207, 33972, 4345, 36902>>,
     <<13722, 37248, 20177, 6881, 15345, 6805, 29337, 30132>> >>)

GOLDILOCKS_MAT_DIAG12_M_1 == <<45086, 27109, 15361, 4419, 32624, 34501, 14118, 33694, 35265, 40791, 3074, 10536>>
GOLDILOCKS_MAT_INTERNAL12 == Ones(<<45087, 27110, 15362, 4420, 32625, 34502, 14119, 33695, 35266, 40792, 3075, 10537>>)
GOLDILOCKS_RC12 == Rows(12,
  << <<36118, 36336, 4258, 982, 3266, 12, 19752, 1580, 44897, 24572, 12104, 20168>>,
     <<40371, 11573, 24118, 30163, 25073, 32116, 30527, 45314, 31089, 15785, 40409, 32092>>,
     <<24015, 26593, 19356, 6903, 20403, 40761, 15215, 4896, 7321, 24417, 16348, 18918>>,
     <<13198, 1622, 18639, 6276, 25312, 8180, 39655, 6408, 4902, 16522, 41093, 2775>> >>,
  << 344, 28199, 6141, 42619, 7366, 22868, 31499, 33830, 44091, 5167, 19642, 28287, 35528,
     14096, 13733, 18646, 15911, 18545, 9618, 10035, 18508, 26503 >>,
  << <<7752, 8028, 39036, 12351, 16067, 33305, 2469, 18336, 31745, 39550, 45440, 8897>>,
     <<29972, 40629, 20471, 26100, 20417, 8491, 3706, 8502, 29029, 4091, 45519, 33996>>,
     <<28397, 46015, 41372, 23425, 2512, 16473, 6286, 1448, 39823, 5385, 24588, 48>>,
     <<27513, 34026, 21138, 12839, 31001, 4846, 5955, 3315, 7546, 18428, 29852, 20869>> >>)

GOLDILOCKS_MAT_DIAG16_M_1 == <<30765, 27605, 7897, 1737, 30612, 17304, 11454, 32907, 3286, 20979, 11939, 38011, 12568,
    39159, 7000, 1809>>
GOLDILOCKS_MAT_INTERNAL16 == Ones(<<30766, 27606, 7898, 1738, 30613, 17305, 11455, 32908, 3287, 20980, 11940, 38012, 12569,
    39160, 7001, 1810>>)
GOLDILOCKS_RC16 == Rows(16,
  << <<5145, 45753, 41536, 16922, 32879, 22285, 12664, 40579, 34677, 10955, 45014, 36365,
       20500, 34000, 13200, 42494>>,
     <<13195, 7423, 6770, 38695, 27305, 12066, 22858, 4785, 4860, 16523, 228, 10504, 46204,
       33551, 2075, 751>>,
     <<37339, 25771, 23707, 36316, 26327, 13978, 6266, 8811, 30916, 27316, 32987, 9801,
       35957, 20163, 43180, 24023>>,
     <<43932, 5986, 17793, 3008, 33042, 34736, 20343, 4727, 22277, 20783, 34338, 4496,
       26926, 28861, 29501, 11409>> >>,
  << 41337, 31074, 38548, 24311, 5184, 35755, 24720, 19965, 39718, 5965, 3735, 30685, 20243,
     30590, 36711, 29119, 23586, 29702, 4333, 16075, 24133, 13384 >>,
  << <<15053, 2646, 45480, 46040, 9427, 32797, 7957, 1047, 31721, 14080, 42475, 38738,
       11121, 7100, 7458, 4690>>,
     <<1002, 2393, 6286, 30154, 19269, 14496, 9406, 8957, 12712, 45427, 22085, 26558, 9892,
       12574, 9859, 10846>>,
     <<10261, 21487, 26993, 41499, 22316, 34182, 23540, 23806, 7793, 25442, 11394, 9626,
       3455, 33045, 24545, 2716>>,
     <<23991, 5316, 40748, 13635, 15846, 42849, 9923, 6614, 1981, 45911, 31490, 43345,
       43761, 15383, 32751, 21223>> >>)

GOLDILOCKS_MAT_DIAG20_M_1 == <<29742, 44890, 21975, 35187, 43335, 3785, 8798, 1772, 11825, 5330, 38830, 34742, 37124,
    38593, 13643, 30113, 41937, 14968, 35037, 10539>>
GOLDILOCKS_MAT_INTERNAL20 == Ones(<<29743, 44891, 21976, 35188, 43336, 3786, 8799, 1773, 11826, 5331, 38831, 34743, 37125,
    38594, 13644, 30114, 41938, 14969, 35038, 10540>>)
GOLDILOCKS_RC20 == Rows(20,
  << <<40145, 4402, 45849, 33106, 34590, 30536, 7429, 28291, 16227, 33733, 36882, 40310,
       14224, 26576, 34181, 16218, 9381, 45531, 40696, 5136>>,
     <<14409, 14484, 43836, 46047, 33520, 9860, 44570, 14784, 4853, 2626, 33408, 46236,
       37405, 41789, 3314, 27914, 32211, 5813, 27638, 30377>>,
     <<9956, 46161, 24144, 9449, 37822, 12154, 37188, 1229, 19313, 40999, 7491, 38253, 2008,
       10174, 254, 38038, 7362, 15606, 35196, 17586>>,
     <<30035, 44696, 13589, 32366, 2296, 4394, 2323, 36476, 10271, 11897, 29449, 32333,
       31108, 40774, 30076, 29703, 30151, 2939, 7243, 26005>> >>,
  << 26332, 34736, 44154, 32345, 41591, 8439, 41714, 10686, 1991, 45283, 11177, 7054, 19223,
     43097, 32999, 27291, 38775, 2974, 711, 12409, 13552, 32052 >>,
  << <<45314, 25085, 25822, 18226, 21914, 4424, 13660, 43561, 15358, 31999, 10303, 1119,
       16049, 28250, 14872, 19128, 25691, 11897, 7947, 27269>>,
     <<46088, 36244, 15363, 33702, 34457, 18914, 36568, 32051, 20245, 32613, 39138, 16759,
       21691, 15061, 14263, 45886, 16700, 35702, 4132, 21083>>,
     <<12708, 25402, 578, 36350, 9242, 38558, 6456, 43270, 46261, 24850, 4300, 43880, 13651,
       326, 25228, 19014, 39835, 39675, 16376, 31449>>,
     <<1247, 43214, 16110, 29773, 4617, 30841, 5058, 8693, 39825, 2330, 7470, 40733, 9291,
       45182, 19025, 16911, 36993, 43540, 35180, 21115>> >>)

-----------------------------------------------------------------------------
(* The library: BabyBear. *)

BABYBEAR_MAT_DIAG16_M_1 == <<44772, 21900, 9112, 23355, 2875, 33898, 1695, 38769, 44481, 27878, 9673, 3425, 42941,
    32065, 29116, 5058>>
BABYBEAR_MAT_INTERNAL16 == Ones(<<44773, 21901, 9113, 23356, 2876, 33899, 1696, 38770, 44482, 27879, 9674, 3426, 42942,
    32066, 29117, 5059>>)
BABYBEAR_RC16 == Rows(16,
  << <<19470, 16899, 2469, 34142, 10843, 34312, 32400, 24052, 33104, 41735, 29979, 40011,
       12170, 6327, 2293, 37478>>,
     <<45609, 26417, 8277, 39718, 9569, 2771, 13983, 3047, 8063, 767, 9413, 12994, 10799,
       6717, 30812, 10322>>,
     <<13259, 38966, 2506, 38373, 38816, 24456, 36934, 21174, 32196, 42336, 40748, 7054,
       21159, 45884, 2536, 30671>>,
     <<42428, 27463, 26446, 17158, 35183, 33953, 9968, 39641, 22887, 34115, 23240, 36069,
       38259, 41901, 10944, 34956>> >>,
  << 35009, 867, 4556, 14279, 27289, 18493, 22657, 10775, 33811, 1680, 18394, 22554, 28253 >>,
  << <<24069, 17785, 6142, 14286, 8464, 33064, 29737, 28876, 12481, 10658, 21139, 33800,
       17894, 39002, 16357, 23473>>,
     <<40261, 13702, 20942, 12196, 10937, 42220, 45985, 38806, 19557, 19348, 42594, 17131,
       17125, 7720, 45934, 42846>>,
     <<28239, 24845, 36298, 15078, 14850, 13220, 28900, 5136, 6093, 34940, 33706, 10452,
       23421, 37773, 22694, 25658>>,
     <<35682, 21685, 34349, 28529, 11040, 3623, 10657, 41892, 33204, 12353, 42748, 45450,
       15993, 32415, 41702, 4658>> >>)

BABYBEAR_MAT_DIAG24_M_1 == <<37791, 6385, 13902, 10651, 11861, 15614, 6236, 17607, 34756, 44747, 23504, 29350, 1605,
    43926, 17151, 290, 13147, 9295, 32191, 14592, 29940, 6456, 13861, 26136>>
BABYBEAR_MAT_INTERNAL24 == Ones(<<37792, 6386, 13903, 10652, 11862, 15615, 6237, 17608, 34757, 44748, 23505, 29351, 1606,
    43927, 17152, 291, 13148, 9296, 32192, 14593, 29941, 6457, 13862, 26137>>)
BABYBEAR_RC24 == Rows(24,
  << <<10779, 11997, 16399, 974, 36994, 23604, 15095, 36105, 9910, 22959, 16755, 10788,
       11085, 34188, 1903, 29225, 43299, 41530, 42671, 43277, 2974, 26830, 45220, 17895>>,
     <<39571, 1274, 43216, 42065, 19658, 20167, 28404, 22272, 5520, 25244, 35355, 27596,
       1665, 33546, 14562, 8578, 43307, 8250, 31338, 40866, 17330, 38286, 29793, 20696>>,
     <<32594, 22342, 2399, 33160, 4194, 26900, 34045, 25188, 21174, 35507, 37015, 38311,
       33200, 6682, 4552, 16473, 26971, 23864, 27267, 3612, 74, 41290, 33242, 25294>>,
     <<32870, 38935, 42949, 6199, 10395, 4596, 40520, 35554, 6714, 21616, 44744, 8752,
       37947, 45102, 43923, 19751, 11070, 8907, 7454, 15, 34663, 31410, 44422, 7359>> >>,
  << 46290, 28015, 42051, 23436, 23456, 14700, 347, 6080, 22900, 14835, 12304, 17034, 4698,
     24555, 6274, 40097, 1601, 41806, 34966, 12253, 24827 >>,
  << <<32053, 41847, 25641, 8442, 12042, 36372, 23117, 45590, 45889, 14727, 9777, 18044,
       38614, 45646, 15251, 3837, 23695, 25156, 39682, 9907, 463, 16592, 42552, 16716>>,
     <<37, 23943, 43836, 27755, 31692, 15719, 35352, 36903, 27125, 26514, 39032, 1713,
       14326, 31899, 37522, 27124, 26932, 6569, 21597, 45659, 32776, 45949, 28173, 36897>>,
     <<37865, 40365, 12107, 22199, 15376, 762, 1267, 17120, 35066, 3189, 13307, 32655,
       19094, 1329, 24129, 35947, 10287, 31553, 25821, 38642, 3544, 32000, 29123, 40730>>,
     <<657, 22456, 40203, 36146, 35111, 36418, 42948, 33211, 5558, 38963, 24613, 10740,
       5851, 41873, 10456, 36717, 39508, 43515, 684, 2242, 46041, 9791, 24179, 7801>> >>)

-----------------------------------------------------------------------------
(* The contracts, for the widths two and three.  In the code's table for width *)
(* two, the row of round 29 (constants.rs:464) has its first constant only.    *)

get_round_constants_t2 == Rows(2,
  << <<24974, 39313>>, <<22750, 6311>>, <<37374, 7078>>, <<29025, 17660>> >>,
  << 39204, 42738, 14699, 19876, 34085, 17508, 19692, 10151, 40685, 12668, 8579, 12682,
     3315, 14635, 6975, 3401, 32696, 7912, 45703, 7700, 9228, 30016, 38891, 29908, 3872,
     23975, 3894, 32848, 203, 40403, 7263, 34765, 46020, 29383, 15727, 26866, 11486, 13206,
     12797, 21255, 9603, 36733, 8892, 42207, 31315, 17264, 2638, 28339, 16462, 25874, 3822,
     25114, 27087, 36135, 28001, 36728 >>,
  << <<28676, 21870>>, <<5907, 7952>>, <<44158, 17446>>, <<3051, 38247>> >>)

get_round_constants_t3 == Rows(3,
  << <<21451, 38849, 19420>>, <<16443, 41250, 21080>>, <<44286, 38290, 20823>>,
     <<17239, 20625, 16354>> >>,
  << 35603, 41690, 40516, 19531, 33930, 13646, 37656, 14948, 18493, 24070, 1661, 3703, 3484,
     12116, 10618, 32107, 73, 34421, 8839, 20747, 2244, 17847, 43689, 23635, 34728, 4420,
     3914, 42163, 22365, 21179, 18100, 15752, 663, 19596, 10822, 22298, 14837, 43659, 21676,
     30029, 27076, 9235, 18536, 1309, 20083, 5599, 17212, 2282, 5639, 2200, 12817, 14663,
     14833, 33589, 7730, 35736 >>,
  << <<34492, 10896, 44978>>, <<46323, 37592, 36275>>, <<14627, 8086, 44954>>,
     <<40356, 1773, 31124>> >>)

-----------------------------------------------------------------------------
(* The circuit, for the widths two to four: full rounds and partial rounds  *)
(* in tables of their own, and the diagonals.                               *)

POSEIDON_PARTIAL_ROUNDS(t) ==
  CASE t = 2 -> << 39204, 42738, 14699, 19876, 34085, 17508, 19692, 10151, 40685, 12668, 8579,
                 12682, 3315, 14635, 6975, 3401, 32696, 7912, 45703, 7700, 9228, 30016,
                 38891, 29908, 3872, 23975, 3894, 32848, 203, 40403, 7263, 34765, 46020,
                 29383, 15727, 26866, 11486, 13206, 12797, 21255, 9603, 36733, 8892, 42207,
                 31315, 17264, 2638, 28339, 16462, 25874, 3822, 25114, 27087, 36135, 28001,
                 36728 >>
    [] t = 3 -> << 35603, 41690, 40516, 19531, 33930, 13646, 37656, 14948, 18493, 24070, 1661,
                 3703, 3484, 12116, 10618, 32107, 73, 34421, 8839, 20747, 2244, 17847,
                 43689, 23635, 34728, 4420, 3914, 42163, 22365, 21179, 18100, 15752, 663,
                 19596, 10822, 22298, 14837, 43659, 21676, 30029, 27076, 9235, 18536, 1309,
                 20083, 5599, 17212, 2282, 5639, 2200, 12817, 14663, 14833, 33589, 7730,
                 35736 >>
    [] t = 4 -> << 23242, 22661, 45022, 4193, 37347, 31717, 46207, 20083, 8670, 8071, 41084,
                 45748, 14059, 15533, 43523, 7050, 7092, 2312, 199, 5863, 43495, 4048,
                 41315, 24540, 9429, 24432, 3515, 27931, 39711, 21734, 13506, 28258, 31858,
                 24241, 12470, 17471, 27796, 25952, 45344, 44405, 4551, 7418, 14957, 25019,
                 14655, 44136, 45777, 5233, 32922, 946, 21039, 45049, 5423, 7007, 42414,
                 45144 >>

\* Mutant: a full round's constants in another order.
POSEIDON_FULL_ROUNDS_Mutant(t) == [i \in 1..8 |-> [j \in 1..t |-> (3 * i + 5 * j + 1) % Q]]

POSEIDON_FULL_ROUNDS(t) ==
  CASE t = 2 -> << <<24974, 39313>>, <<22750, 6311>>, <<37374, 7078>>, <<29025, 17660>>,
                 <<28676, 21870>>, <<5907, 7952>>, <<44158, 17446>>, <<3051, 38247>> >>
    [] t = 3 -> << <<21451, 38849, 19420>>, <<16443, 41250, 21080>>, <<44286, 38290, 20823>>,
                 <<17239, 20625, 16354>>, <<34492, 10896, 44978>>, <<46323, 37592, 36275>>,
                 <<14627, 8086, 44954>>, <<40356, 1773, 31124>> >>
    [] t = 4 -> << <<4917, 39430, 43442, 20677>>, <<26349, 9397, 23127, 30531>>,
                 <<36033, 22289, 30554, 45713>>, <<15089, 9428, 18880, 25905>>,
                 <<13501, 17723, 13428, 4558>>, <<7213, 44705, 1769, 9581>>,
                 <<2348, 45641, 41770, 45241>>, <<45283, 14935, 39047, 45040>> >>

POSEIDON_INTERNAL_MAT_DIAG(t) ==
  CASE t = 2 -> <<1, 2>>
    [] t = 3 -> <<1, 1, 2>>
    [] t = 4 -> <<7048, 9417, 32952, 4996>>
=============================================================================
